---- MODULE Spec2Model ----
(***************************************************************************)
(* A model of the astrological computation engine of aterica               *)
(* (planetaryUtils): the ephemeris singleton, the zodiac mapper, the       *)
(* dignity evaluator, the house calculator, the alignment detector and     *)
(* the elemental profile accumulator.                                      *)
(*                                                                         *)
(* Each component has its own variables and its own specification; a       *)
(* specification leaves the variables of the other components at their     *)
(* idle value.                                                             *)
(***************************************************************************)
EXTENDS Integers, Sequences, FiniteSets, TLC

VARIABLES
    sweInstance,    \* module variable sweInstance: 0 = null, else the adapter instance
    initPromise,    \* module variable initPromise: [state, value]
    initCount,      \* number of times SwissEPH.init has been started
    initStage,      \* position of the async body of initPromise
    callers,        \* per caller: position and what it received
    dignityCall,    \* calculateDignityScore: arguments and result
    signCall,       \* longitudeToSign: argument and result
    positionsRun,   \* getAllPlanetaryDignities: adapter, progress and results
    housesCall,     \* calculateHouseCusps: adapter result and result
    alignCall,      \* detectAlignments: argument and result
    profileCall,    \* calculateElementalProfile: arguments and result
    rulerCall,      \* getPlanetaryHour and getTattva: arguments and results
    moonCall,       \* getMoonPhase: the sky and the result
    eventsCall,     \* getUpcomingEvents: arguments and result
    registry,       \* the PlanetaryRegistry component: state and effect runs
    sourceCall      \* one source of the elemental profile: inputs and result

vars == <<sweInstance, initPromise, initCount, initStage, callers, dignityCall,
          signCall, positionsRun, housesCall, alignCall, profileCall, rulerCall,
          moonCall, eventsCall, registry, sourceCall>>

Idle == [stage |-> "idle"]

(***************************************************************************)
(* Types and tables                                                        *)
(***************************************************************************)
Planet == {"Sun", "Moon", "Mercury", "Venus", "Mars", "Jupiter", "Saturn"}

ZODIAC_SIGNS ==
    <<"Aries", "Taurus", "Gemini", "Cancer", "Leo", "Virgo",
      "Libra", "Scorpio", "Sagittarius", "Capricorn", "Aquarius", "Pisces">>

ZodiacSign == {ZODIAC_SIGNS[i] : i \in 1..12}

Dignity == {"Domicile", "Exaltation", "Detriment", "Fall", "Neutral"}

\* the table with the Sun's exaltation copied from its domicile
PLANETARY_DIGNITIES_SunExaltedInLeo ==
    [p \in Planet |->
        CASE p = "Sun" ->
               [domiciles |-> {"Leo"}, exaltation |-> "Leo",
                detriment |-> {"Aquarius"}, fall |-> "Libra"]
          [] p = "Moon" ->
               [domiciles |-> {"Cancer"}, exaltation |-> "Taurus",
                detriment |-> {"Capricorn"}, fall |-> "Scorpio"]
          [] p = "Mercury" ->
               [domiciles |-> {"Gemini", "Virgo"}, exaltation |-> "Virgo",
                detriment |-> {"Sagittarius", "Pisces"}, fall |-> "Pisces"]
          [] p = "Venus" ->
               [domiciles |-> {"Taurus", "Libra"}, exaltation |-> "Pisces",
                detriment |-> {"Aries", "Scorpio"}, fall |-> "Virgo"]
          [] p = "Mars" ->
               [domiciles |-> {"Aries", "Scorpio"}, exaltation |-> "Capricorn",
                detriment |-> {"Libra", "Taurus"}, fall |-> "Cancer"]
          [] p = "Jupiter" ->
               [domiciles |-> {"Sagittarius", "Pisces"}, exaltation |-> "Cancer",
                detriment |-> {"Gemini", "Virgo"}, fall |-> "Capricorn"]
          [] p = "Saturn" ->
               [domiciles |-> {"Capricorn", "Aquarius"}, exaltation |-> "Libra",
                detriment |-> {"Cancer", "Leo"}, fall |-> "Aries"]]

PLANETARY_DIGNITIES ==
    [p \in Planet |->
        CASE p = "Sun" ->
               [domiciles |-> {"Leo"}, exaltation |-> "Aries",
                detriment |-> {"Aquarius"}, fall |-> "Libra"]
          [] p = "Moon" ->
               [domiciles |-> {"Cancer"}, exaltation |-> "Taurus",
                detriment |-> {"Capricorn"}, fall |-> "Scorpio"]
          [] p = "Mercury" ->
               [domiciles |-> {"Gemini", "Virgo"}, exaltation |-> "Virgo",
                detriment |-> {"Sagittarius", "Pisces"}, fall |-> "Pisces"]
          [] p = "Venus" ->
               [domiciles |-> {"Taurus", "Libra"}, exaltation |-> "Pisces",
                detriment |-> {"Aries", "Scorpio"}, fall |-> "Virgo"]
          [] p = "Mars" ->
               [domiciles |-> {"Aries", "Scorpio"}, exaltation |-> "Capricorn",
                detriment |-> {"Libra", "Taurus"}, fall |-> "Cancer"]
          [] p = "Jupiter" ->
               [domiciles |-> {"Sagittarius", "Pisces"}, exaltation |-> "Cancer",
                detriment |-> {"Gemini", "Virgo"}, fall |-> "Capricorn"]
          [] p = "Saturn" ->
               [domiciles |-> {"Capricorn", "Aquarius"}, exaltation |-> "Libra",
                detriment |-> {"Cancer", "Leo"}, fall |-> "Aries"]]

SIGN_ELEMENTS ==
    [s \in ZodiacSign |->
        CASE s \in {"Aries", "Leo", "Sagittarius"} -> "Fire"
          [] s \in {"Taurus", "Virgo", "Capricorn"} -> "Earth"
          [] s \in {"Gemini", "Libra", "Aquarius"} -> "Air"
          [] s \in {"Cancer", "Scorpio", "Pisces"} -> "Water"]

Max(a, b) == IF a >= b THEN a ELSE b
Min(a, b) == IF a <= b THEN a ELSE b
Abs(a) == IF a < 0 THEN -a ELSE a

(***************************************************************************)
(* Ephemeris adapter singleton: initSwissEphemeris                         *)
(*                                                                         *)
(* JavaScript runs each call synchronously up to its first await, so the   *)
(* two tests and the start of the async body are one step.  SwissEPH.init  *)
(* returns a fresh adapter object each time it is called: the n-th call    *)
(* yields instance n.                                                      *)
(***************************************************************************)
NumCallers == 3
MaxCalls == 2

Callers == 1..NumCallers

InitSingleton ==
    /\ sweInstance = 0
    /\ initPromise = [state |-> "null", value |-> 0]
    /\ initCount = 0
    /\ initStage = [pc |-> "none", swe |-> 0]
    /\ callers = [c \in Callers |->
                    [pc |-> "idle", calls |-> 0, via |-> "none", direct |-> 0, got |-> {},
                     failed |-> FALSE]]

\* the body of initSwissEphemeris without the test of initPromise
CallInit_NoPromiseGuard(c) ==
    /\ callers[c].pc = "idle"
    /\ callers[c].calls < MaxCalls
    /\ IF sweInstance # 0
       THEN /\ callers' = [callers EXCEPT ![c].pc = "awaiting", ![c].via = "cached",
                                          ![c].direct = sweInstance,
                                          ![c].calls = @ + 1]
            /\ UNCHANGED <<initPromise, initCount, initStage>>
       ELSE /\ initCount' = initCount + 1
            /\ initStage' = [pc |-> "init", swe |-> 0]
            /\ initPromise' = [state |-> "pending", value |-> 0]
            /\ callers' = [callers EXCEPT ![c].pc = "awaiting", ![c].via = "started",
                                          ![c].direct = 0, ![c].calls = @ + 1]
    /\ UNCHANGED <<sweInstance, dignityCall, signCall, positionsRun, housesCall,
                   alignCall, profileCall,
                   rulerCall, moonCall, eventsCall, registry,
                   sourceCall>>

\* initSwissEphemeris up to its return: the cached instance, the promise in
\* flight, or a new promise whose body has started SwissEPH.init
CallInit(c) ==
    /\ callers[c].pc = "idle"
    /\ callers[c].calls < MaxCalls
    /\ IF sweInstance # 0
       THEN /\ callers' = [callers EXCEPT ![c].pc = "awaiting", ![c].via = "cached",
                                          ![c].direct = sweInstance,
                                          ![c].calls = @ + 1]
            /\ UNCHANGED <<initPromise, initCount, initStage>>
       ELSE IF initPromise.state # "null"
       THEN /\ callers' = [callers EXCEPT ![c].pc = "awaiting", ![c].via = "joined",
                                          ![c].direct = 0, ![c].calls = @ + 1]
            /\ UNCHANGED <<initPromise, initCount, initStage>>
       ELSE /\ initCount' = initCount + 1
            /\ initStage' = [pc |-> "init", swe |-> 0]
            /\ initPromise' = [state |-> "pending", value |-> 0]
            /\ callers' = [callers EXCEPT ![c].pc = "awaiting", ![c].via = "started",
                                          ![c].direct = 0, ![c].calls = @ + 1]
    /\ UNCHANGED <<sweInstance, dignityCall, signCall, positionsRun, housesCall,
                   alignCall, profileCall,
                   rulerCall, moonCall, eventsCall, registry,
                   sourceCall>>

\* await SwissEPH.init(cdnPath) resolves; the body goes on to swe_set_ephe_path
InitResolves ==
    /\ initStage.pc = "init"
    /\ initStage' = [pc |-> "setPath", swe |-> initCount]
    /\ UNCHANGED <<sweInstance, initPromise, initCount, callers, dignityCall, signCall,
                   positionsRun, housesCall, alignCall, profileCall,
                   rulerCall, moonCall, eventsCall, registry,
                   sourceCall>>

\* await swe.swe_set_ephe_path() resolves; sweInstance = swe; return swe
SetPathResolves ==
    /\ initStage.pc = "setPath"
    /\ sweInstance' = initStage.swe
    /\ initPromise' = [state |-> "fulfilled", value |-> initStage.swe]
    /\ initStage' = [initStage EXCEPT !.pc = "done"]
    /\ UNCHANGED <<initCount, callers, dignityCall, signCall, positionsRun, housesCall,
                   alignCall, profileCall,
                   rulerCall, moonCall, eventsCall, registry,
                   sourceCall>>

\* the failed promise is dropped, so that a later call starts over
InitRejects_ResetsPromise ==
    /\ initStage.pc \in {"init", "setPath"}
    /\ initPromise' = [state |-> "null", value |-> 0]
    /\ initStage' = [initStage EXCEPT !.pc = "failed"]
    /\ UNCHANGED <<sweInstance, initCount, callers, dignityCall, signCall, positionsRun,
                   housesCall, alignCall, profileCall,
                   rulerCall, moonCall, eventsCall, registry,
                   sourceCall>>

\* either await of the body rejects: the promise is rejected, nothing is reset
InitRejects ==
    /\ initStage.pc \in {"init", "setPath"}
    /\ initPromise' = [state |-> "rejected", value |-> 0]
    /\ initStage' = [initStage EXCEPT !.pc = "failed"]
    /\ UNCHANGED <<sweInstance, initCount, callers, dignityCall, signCall, positionsRun,
                   housesCall, alignCall, profileCall,
                   rulerCall, moonCall, eventsCall, registry,
                   sourceCall>>

\* the caller's await of initSwissEphemeris() settles
CallerResumes(c) ==
    /\ callers[c].pc = "awaiting"
    /\ IF callers[c].via = "cached"
       THEN callers' = [callers EXCEPT ![c].pc = "idle",
                                       ![c].got = @ \cup {callers[c].direct}]
       ELSE /\ initPromise.state \in {"fulfilled", "rejected"}
            /\ IF initPromise.state = "fulfilled"
               THEN callers' = [callers EXCEPT ![c].pc = "idle",
                                               ![c].got = @ \cup {initPromise.value}]
               ELSE callers' = [callers EXCEPT ![c].pc = "idle", ![c].failed = TRUE]
    /\ UNCHANGED <<sweInstance, initPromise, initCount, initStage, dignityCall, signCall,
                   positionsRun, housesCall, alignCall, profileCall,
                   rulerCall, moonCall, eventsCall, registry,
                   sourceCall>>

NextSingleton ==
    \/ \E c \in Callers : CallInit(c)
    \/ InitResolves
    \/ SetPathResolves
    \/ InitRejects
    \/ \E c \in Callers : CallerResumes(c)

(***************************************************************************)
(* Dignity Evaluator                                                       *)
(***************************************************************************)
\* the else-if chain of calculateDignityScore: the first matching category
\* the exaltation and the fall are tested before the domiciles and the detriments
DignityBranch_ExaltationFirst(planet, sign) ==
    LET dignities == PLANETARY_DIGNITIES[planet]
    IN  IF sign = dignities.exaltation THEN "Exaltation"
        ELSE IF sign \in dignities.domiciles THEN "Domicile"
        ELSE IF sign = dignities.fall THEN "Fall"
        ELSE IF sign \in dignities.detriment THEN "Detriment"
        ELSE "None"

DignityBranch(planet, sign) ==
    LET dignities == PLANETARY_DIGNITIES[planet]
    IN  IF sign \in dignities.domiciles THEN "Domicile"
        ELSE IF sign = dignities.exaltation THEN "Exaltation"
        ELSE IF sign \in dignities.detriment THEN "Detriment"
        ELSE IF sign = dignities.fall THEN "Fall"
        ELSE "None"

BranchScore(branch) ==
    CASE branch = "Domicile" -> 5
      [] branch = "Exaltation" -> 4
      [] branch = "Detriment" -> -5
      [] branch = "Fall" -> -4
      [] OTHER -> 0

\* dignity is declared without its initial value "Neutral"
calculateDignityScore_NoDefault(planet, sign, isRetrograde) ==
    LET branch == DignityBranch(planet, sign)
        score0 == BranchScore(branch)
        score1 == IF isRetrograde THEN score0 - 2 ELSE score0
    IN  [planet |-> planet, sign |-> sign,
         dignity |-> IF branch = "None" THEN "undefined" ELSE branch,
         score |-> Max(-10, Min(10, score1)),
         isRetrograde |-> isRetrograde, longitude |-> 0]

\* the retrograde penalty is applied to dignified planets only
calculateDignityScore_PenaltyIfPositive(planet, sign, isRetrograde) ==
    LET branch == DignityBranch(planet, sign)
        score0 == BranchScore(branch)
        score1 == IF isRetrograde /\ score0 > 0 THEN score0 - 2 ELSE score0
    IN  [planet |-> planet, sign |-> sign,
         dignity |-> IF branch = "None" THEN "Neutral" ELSE branch,
         score |-> Max(-10, Min(10, score1)),
         isRetrograde |-> isRetrograde, longitude |-> 0]

calculateDignityScore(planet, sign, isRetrograde) ==
    LET branch == DignityBranch(planet, sign)
        score0 == BranchScore(branch)
        score1 == IF isRetrograde THEN score0 - 2 ELSE score0
    IN  [planet |-> planet, sign |-> sign,
         dignity |-> IF branch = "None" THEN "Neutral" ELSE branch,
         score |-> Max(-10, Min(10, score1)),
         isRetrograde |-> isRetrograde, longitude |-> 0]

InitDignity ==
    \E p \in Planet, s \in ZodiacSign, r \in BOOLEAN :
        dignityCall = [stage |-> "called", planet |-> p, sign |-> s,
                       isRetrograde |-> r, ret |-> "none"]

CallDignityScore ==
    /\ dignityCall.stage = "called"
    /\ dignityCall' = [dignityCall EXCEPT
            !.stage = "returned",
            !.ret = calculateDignityScore(dignityCall.planet, dignityCall.sign,
                                          dignityCall.isRetrograde)]
    /\ UNCHANGED <<sweInstance, initPromise, initCount, initStage, callers,
                   signCall, positionsRun, housesCall, alignCall, profileCall,
                   rulerCall, moonCall, eventsCall, registry,
                   sourceCall>>


(***************************************************************************)
(* Zodiac Mapper: longitudeToSign                                          *)
(*                                                                         *)
(* A JavaScript number near a whole degree is the record [deg, eps]: the   *)
(* value deg + eps * 2^-46.  2^-46 is a quarter of the spacing of the      *)
(* doubles in [256, 512), so that the rounding of `longitude += 360` is    *)
(* what IEEE-754 makes it.  The % operator is exact.                       *)
(***************************************************************************)
MaxLonDeg == 400

Deg(d) == [deg |-> d, eps |-> 0]

NumNegative(x) == x.deg < 0 \/ (x.deg = 0 /\ x.eps < 0)

NumNeg(x) == [deg |-> -x.deg, eps |-> -x.eps]

\* Math.floor of a non-negative number
NumFloor(x) == IF x.eps < 0 THEN x.deg - 1 ELSE x.deg

\* longitude % 360: the remainder has the sign of the dividend
JsRem360(x) ==
    LET RemPos(y) == [deg |-> y.deg - 360 * (NumFloor(y) \div 360), eps |-> y.eps]
    IN  IF NumNegative(x) THEN NumNeg(RemPos(NumNeg(x))) ELSE RemPos(x)

\* the spacing of the doubles around a value, in units of 2^-46
DoubleGrid(whole) ==
    IF whole >= 256 THEN 4 ELSE IF whole >= 128 THEN 2 ELSE 1

\* round to nearest, ties to the even mantissa
RoundToGrid(e, g) ==
    LET lo == g * (e \div g)
        r == e - lo
    IN  IF 2 * r < g THEN lo
        ELSE IF 2 * r > g THEN lo + g
        ELSE IF (lo \div g) % 2 = 0 THEN lo ELSE lo + g

\* longitude += 360, for a longitude in (-360, 0)
JsAdd360(x) ==
    LET sum == [deg |-> x.deg + 360, eps |-> x.eps]
    IN  [deg |-> sum.deg, eps |-> RoundToGrid(sum.eps, DoubleGrid(NumFloor(sum)))]

longitudeToSign(longitude) ==
    LET lon1 == JsRem360(longitude)
        lon2 == IF NumNegative(lon1) THEN JsAdd360(lon1) ELSE lon1
        signIndex == NumFloor(lon2) \div 30
    IN  IF signIndex \in 0..11 THEN ZODIAC_SIGNS[signIndex + 1] ELSE "undefined"

\* whole degrees, and the doubles next to 0 and 360 degrees
LonInputs ==
    {Deg(d) : d \in -MaxLonDeg..MaxLonDeg}
    \cup {[deg |-> 0, eps |-> e] : e \in {-3, -2, -1, 1, 2, 3}}
    \cup {[deg |-> d, eps |-> e] : d \in {-360, 360}, e \in {-4, 4}}

InitSign ==
    \E x \in LonInputs : signCall = [stage |-> "called", lon |-> x, ret |-> "none"]

CallLongitudeToSign ==
    /\ signCall.stage = "called"
    /\ signCall' = [signCall EXCEPT !.stage = "returned",
                                    !.ret = longitudeToSign(signCall.lon)]
    /\ UNCHANGED <<sweInstance, initPromise, initCount, initStage, callers,
                   dignityCall, positionsRun, housesCall, alignCall, profileCall,
                   rulerCall, moonCall, eventsCall, registry,
                   sourceCall>>

(***************************************************************************)
(* getPlanetPosition and getAllPlanetaryDignities                          *)
(*                                                                         *)
(* The ephemeris is an external collaborator.  A sky gives each planet its *)
(* longitude (whole degrees) and direction; the adapter answers a planet's *)
(* swe_calc_ut calls in one of the modes below, and at most MaxFaults      *)
(* planets of a run are answered in a mode other than "ok".                *)
(***************************************************************************)
MaxFaults == 2

PLANETS == <<"Sun", "Moon", "Mercury", "Venus", "Mars", "Jupiter", "Saturn">>

Sky(lons, retro) ==
    [p \in Planet |->
        [lon |-> lons[CHOOSE i \in 1..7 : PLANETS[i] = p],
         retro |-> p \in retro]]

Skies ==
    << Sky(<<135, 200, 140, 95, 318, 40, 359>>, {"Mercury", "Saturn"}),
       Sky(<<15, 20, 25, 0, 185, 250, 100>>, {}),
       Sky(<<0, 120, 240, 170, 290, 310, 275>>, {"Mars"}),
       Sky(<<39, 60, 118, 99, 217, 300, 240>>, {"Venus"}) >>

\* "ok":        [lon, lat, dist, speed, ...]
\* "noSpeed":   the array carries no speed
\* "errThenOk": {error} with the speed flag, an array without it
\* "errErr":    {error} with and without the speed flag
\* "noLon":     no error, and no longitude (undefined, or NaN in first place)
AdapterModes == {"ok", "noSpeed", "errThenOk", "errErr", "noLon"}

\* swe_calc_ut(julianDay, planetNumber, flag) for a planet of the sky
swe_calc_ut(sky, planet, mode, flag, hoursLater) ==
    IF mode = "errErr" \/ (mode = "errThenOk" /\ flag = 2)
    THEN [error |-> TRUE, hasLon |-> FALSE, lon |-> 0, speed |-> "undefined"]
    ELSE [error |-> FALSE,
          hasLon |-> mode # "noLon",
          lon |-> IF mode = "noLon" THEN 0
                  ELSE (sky[planet].lon + 360
                         + hoursLater * (IF sky[planet].retro THEN -1 ELSE 1)) % 360,
          speed |-> IF flag = 2 /\ mode = "ok"
                    THEN (IF sky[planet].retro THEN "negative" ELSE "positive")
                    ELSE "undefined"]

\* positions[0] || 0
LonOrZero(result) == IF result.hasLon THEN result.lon ELSE 0

getPlanetPosition(sky, planet, mode) ==
    LET first == swe_calc_ut(sky, planet, mode, 2, 0)
        retry == swe_calc_ut(sky, planet, mode, 0, 0)
        flag == IF first.error THEN 0 ELSE 2
        result == IF first.error THEN retry ELSE first
        long1 == LonOrZero(swe_calc_ut(sky, planet, mode, 0, 0))
        long2 == LonOrZero(swe_calc_ut(sky, planet, mode, 0, 1))
        diff0 == long2 - long1
        diff1 == IF diff0 > 180 THEN diff0 - 360 ELSE diff0
        diff == IF diff1 < -180 THEN diff1 + 360 ELSE diff1
    IN  IF first.error /\ retry.error
        THEN [thrown |-> TRUE, longitude |-> 0, isRetrograde |-> FALSE]
        ELSE [thrown |-> FALSE,
              longitude |-> LonOrZero(result),
              isRetrograde |->
                  IF flag = 2 /\ result.speed # "undefined"
                  THEN result.speed = "negative"
                  ELSE diff < 0]

\* the callback of planets.map in getAllPlanetaryDignities
PlacementOf(planet, position) ==
    [calculateDignityScore(planet, longitudeToSign(Deg(position.longitude)),
                           position.isRetrograde)
        EXCEPT !.longitude = position.longitude]

\* what getAllPlanetaryDignities resolves with when the adapter answers every
\* request: the placements of the seven planets, in the order of PLANETS
DignitiesOf(sky) ==
    << PlacementOf("Sun", getPlanetPosition(sky, "Sun", "ok")),
       PlacementOf("Moon", getPlanetPosition(sky, "Moon", "ok")),
       PlacementOf("Mercury", getPlanetPosition(sky, "Mercury", "ok")),
       PlacementOf("Venus", getPlanetPosition(sky, "Venus", "ok")),
       PlacementOf("Mars", getPlanetPosition(sky, "Mars", "ok")),
       PlacementOf("Jupiter", getPlanetPosition(sky, "Jupiter", "ok")),
       PlacementOf("Saturn", getPlanetPosition(sky, "Saturn", "ok")) >>

InitPositions ==
    \E k \in 1..Len(Skies) :
        positionsRun = [stage |-> "mapping", sky |-> k, modes |-> <<>>,
                        results |-> <<>>, thrown |-> FALSE]

FaultsSoFar == Cardinality({i \in 1..Len(positionsRun.modes) : positionsRun.modes[i] # "ok"})

\* one callback of planets.map: it runs to its end before the next one starts
MapPlanet ==
    /\ positionsRun.stage = "mapping"
    /\ Len(positionsRun.modes) < Len(PLANETS)
    /\ \E mode \in AdapterModes :
        /\ mode # "ok" => FaultsSoFar < MaxFaults
        /\ LET planet == PLANETS[Len(positionsRun.modes) + 1]
               position == getPlanetPosition(Skies[positionsRun.sky], planet, mode)
           IN  positionsRun' =
                 [positionsRun EXCEPT
                    !.modes = Append(@, mode),
                    !.thrown = @ \/ position.thrown,
                    !.results = IF position.thrown THEN @
                                ELSE Append(@, PlacementOf(planet, position))]
    /\ UNCHANGED <<sweInstance, initPromise, initCount, initStage, callers,
                   dignityCall, signCall, housesCall, alignCall, profileCall,
                   rulerCall, moonCall, eventsCall, registry,
                   sourceCall>>

\* Promise.all settles: rejected if a callback threw, else the seven placements
SettleAll ==
    /\ positionsRun.stage = "mapping"
    /\ Len(positionsRun.modes) = Len(PLANETS)
    /\ positionsRun' = [positionsRun EXCEPT
            !.stage = IF positionsRun.thrown THEN "rejected" ELSE "resolved",
            !.results = IF positionsRun.thrown THEN <<>> ELSE @]
    /\ UNCHANGED <<sweInstance, initPromise, initCount, initStage, callers,
                   dignityCall, signCall, housesCall, alignCall, profileCall,
                   rulerCall, moonCall, eventsCall, registry,
                   sourceCall>>

NextPositions == MapPlanet \/ SettleAll

(***************************************************************************)
(* House System Calculator: calculateHouseCusps                            *)
(*                                                                         *)
(* A value of the adapter is [nan, v]: nan stands for undefined or NaN     *)
(* (a value the code rejects), v is a whole number of degrees.  CuspsOf and AscmcOf are the       *)
(* arrays after the format handling: a missing array is the empty one.     *)
(***************************************************************************)
NaN == [nan |-> TRUE, v |-> 0]

Val(v) == [nan |-> FALSE, v |-> v]

\* a % 360 of JavaScript: the remainder has the sign of a
JsRem(a, m) == IF a < 0 THEN -((-a) % m) ELSE a % m

\* x % 360, then += 360 if negative
Normalize360(a) == LET r == JsRem(a, 360) IN IF r < 0 THEN r + 360 ELSE r

\* cusps 1..12 of a Placidus-like chart whose first cusp is at base
PlacidusOffsets == <<0, 25, 55, 90, 125, 155, 180, 205, 235, 270, 305, 335>>

HouseShapes == {"pair", "pairNoAscmc", "flat", "object", "objectNoAscmc", "null"}

\* swe_houses(julianDay, latitude, longitude, 'P')
HouseResults ==
    [shape : HouseShapes,
     base : {-30, 0, 100, 200, 350, 400},
     bad : {{}, 1..12, {1}, {10}, {1, 10}, {3, 4}},
     asc : {"cusp", "other", "nan"},
     mc : {"cusp", "other", "nan"}]

\* cusps[i] after the format handling, i in 1..12
CuspsOf(hr, i) ==
    IF hr.shape = "null" \/ i \in hr.bad THEN NaN
    ELSE Val(hr.base + PlacidusOffsets[i])

\* ascmc after the format handling: <<>> when the result carries none
AscmcOf(hr) ==
    IF hr.shape \in {"pairNoAscmc", "flat", "objectNoAscmc", "null"} THEN <<>>
    ELSE << CASE hr.asc = "cusp" -> Val(hr.base)
              [] hr.asc = "other" -> Val(hr.base - 7)
              [] OTHER -> NaN,
            CASE hr.mc = "cusp" -> Val(hr.base + PlacidusOffsets[10])
              [] hr.mc = "other" -> Val(hr.base + 263)
              [] OTHER -> NaN >>

\* ic and descendant are mc + 180 and ascendant + 180, without the % 360
calculateHouseCusps_NoWrap(hr) ==
    LET houses == [i \in 1..12 |->
                     IF ~CuspsOf(hr, i).nan THEN Normalize360(CuspsOf(hr, i).v)
                     ELSE (i - 1) * 30]
        ascmc == AscmcOf(hr)
        ascendant == IF Len(ascmc) > 0 /\ ~ascmc[1].nan THEN Normalize360(ascmc[1].v)
                     ELSE houses[1]
        mc == IF Len(ascmc) > 1 /\ ~ascmc[2].nan THEN Normalize360(ascmc[2].v)
              ELSE houses[10]
    IN  [houses |-> houses, ascendant |-> ascendant, mc |-> mc,
         ic |-> mc + 180, descendant |-> ascendant + 180]

calculateHouseCusps(hr) ==
    LET houses == [i \in 1..12 |->
                     IF ~CuspsOf(hr, i).nan THEN Normalize360(CuspsOf(hr, i).v)
                     ELSE (i - 1) * 30]
        ascmc == AscmcOf(hr)
        ascendant == IF Len(ascmc) > 0 /\ ~ascmc[1].nan THEN Normalize360(ascmc[1].v)
                     ELSE houses[1]
        mc == IF Len(ascmc) > 1 /\ ~ascmc[2].nan THEN Normalize360(ascmc[2].v)
              ELSE houses[10]
    IN  [houses |-> houses, ascendant |-> ascendant, mc |-> mc,
         ic |-> (mc + 180) % 360, descendant |-> (ascendant + 180) % 360]

InitHouses ==
    \E hr \in HouseResults :
        housesCall = [stage |-> "called", houseResult |-> hr, ret |-> "none"]

CallHouseCusps ==
    /\ housesCall.stage = "called"
    /\ housesCall' = [housesCall EXCEPT
            !.stage = "returned", !.ret = calculateHouseCusps(housesCall.houseResult)]
    /\ UNCHANGED <<sweInstance, initPromise, initCount, initStage, callers,
                   dignityCall, signCall, positionsRun, alignCall, profileCall,
                   rulerCall, moonCall, eventsCall, registry,
                   sourceCall>>

(***************************************************************************)
(* Alignment Detector: detectAlignments                                    *)
(* Longitudes are whole degrees.                                           *)
(***************************************************************************)
MaxBodies == 3

\* the diff > 180 test is missing
angularDistance_NoWrap(lon1, lon2) == Abs(lon1 - lon2)

angularDistance(lon1, lon2) ==
    LET diff == Abs(lon1 - lon2)
    IN  IF diff > 180 THEN 360 - diff ELSE diff

normalizeLongitude(lon) == Normalize360(lon)

\* Math.round(100 * (1 - d / tolerance)) for tolerance = 8 and a whole d
RoundStrength(d) == (804 - 100 * d) \div 8

\* the index pairs i < j and triples i < j < k of seven placements, in the order
\* of the nested loops
AllPairs ==
    SelectSeq([m \in 1..49 |-> <<((m - 1) \div 7) + 1, ((m - 1) % 7) + 1>>],
              LAMBDA q : q[1] < q[2])

AllTriples ==
    SelectSeq([m \in 1..343 |->
                  <<((m - 1) \div 49) + 1, (((m - 1) \div 7) % 7) + 1, ((m - 1) % 7) + 1>>],
              LAMBDA q : q[1] < q[2] /\ q[2] < q[3])

\* the same for n placements
IndexPairs(n) == SelectSeq(AllPairs, LAMBDA q : q[2] <= n)

IndexTriples(n) == SelectSeq(AllTriples, LAMBDA q : q[3] <= n)

Conjunctions(dignities) ==
    LET hits == SelectSeq(IndexPairs(Len(dignities)),
                    LAMBDA q : angularDistance(dignities[q[1]].longitude,
                                               dignities[q[2]].longitude) <= 8)
    IN  [m \in 1..Len(hits) |->
            [planets |-> <<dignities[hits[m][1]].planet, dignities[hits[m][2]].planet>>,
             type |-> "Conjunction",
             strength |-> RoundStrength(
                 angularDistance(dignities[hits[m][1]].longitude,
                                 dignities[hits[m][2]].longitude))]]

Oppositions(dignities) ==
    LET hits == SelectSeq(IndexPairs(Len(dignities)),
                    LAMBDA q : Abs(angularDistance(dignities[q[1]].longitude,
                                                   dignities[q[2]].longitude) - 180) <= 8)
    IN  [m \in 1..Len(hits) |->
            [planets |-> <<dignities[hits[m][1]].planet, dignities[hits[m][2]].planet>>,
             type |-> "Opposition",
             strength |-> RoundStrength(
                 Abs(angularDistance(dignities[hits[m][1]].longitude,
                                     dignities[hits[m][2]].longitude) - 180))]]

\* the wraparound gap dist3 is left out
IsLinear_NoWrapGap(a, b, c) ==
    LET lo == Min(a, Min(b, c))
        hi == Max(a, Max(b, c))
        mid == a + b + c - lo - hi
        dist1 == mid - lo
        dist2 == hi - mid
    IN  Abs(dist1 - dist2) <= 15

\* the three gaps of the sorted longitudes: dist1, dist2 and the wraparound dist3
IsLinear(a, b, c) ==
    LET lo == Min(a, Min(b, c))
        hi == Max(a, Max(b, c))
        mid == a + b + c - lo - hi
        dist1 == mid - lo
        dist2 == hi - mid
        dist3 == 360 - hi + lo
    IN  \/ Abs(dist1 - dist2) <= 15
        \/ Abs(dist2 - dist3) <= 15
        \/ Abs(dist3 - dist1) <= 15

Linears(dignities) ==
    LET hits == SelectSeq(IndexTriples(Len(dignities)),
                    LAMBDA q : IsLinear(normalizeLongitude(dignities[q[1]].longitude),
                                        normalizeLongitude(dignities[q[2]].longitude),
                                        normalizeLongitude(dignities[q[3]].longitude)))
    IN  [m \in 1..Len(hits) |->
            [planets |-> <<dignities[hits[m][1]].planet, dignities[hits[m][2]].planet,
                           dignities[hits[m][3]].planet>>,
             type |-> "Linear",
             strength |-> 75]]

\* a group needs more than three planets
Stelliums_MoreThanThree(dignities) ==
    LET n == Len(dignities)
        firsts == SelectSeq([i \in 1..n |-> i],
                      LAMBDA i : \A j \in 1..(i - 1) : dignities[j].sign # dignities[i].sign)
        group(i) == SelectSeq(dignities, LAMBDA d : d.sign = dignities[i].sign)
        hits == SelectSeq(firsts, LAMBDA i : Len(group(i)) > 3)
    IN  [m \in 1..Len(hits) |->
            [planets |-> [x \in 1..Len(group(hits[m])) |-> group(hits[m])[x].planet],
             type |-> "Stellium",
             strength |-> Len(group(hits[m])) * 15]]

\* signGroups: the signs in the order of their first placement, each with the
\* planets placed in it
Stelliums(dignities) ==
    LET n == Len(dignities)
        firsts == SelectSeq([i \in 1..n |-> i],
                      LAMBDA i : \A j \in 1..(i - 1) : dignities[j].sign # dignities[i].sign)
        group(i) == SelectSeq(dignities, LAMBDA d : d.sign = dignities[i].sign)
        hits == SelectSeq(firsts, LAMBDA i : Len(group(i)) >= 3)
    IN  [m \in 1..Len(hits) |->
            [planets |-> [x \in 1..Len(group(hits[m])) |-> group(hits[m])[x].planet],
             type |-> "Stellium",
             strength |-> Len(group(hits[m])) * 15]]

detectAlignments(dignities) ==
    Conjunctions(dignities) \o Oppositions(dignities)
        \o Linears(dignities) \o Stelliums(dignities)

AlignLons == {0, 4, 8, 9, 120, 171, 172, 180, 240, 355}

\* the placements of the first n planets at the given longitudes
PlacementsAt(lons) ==
    [i \in 1..Len(lons) |->
        PlacementOf(PLANETS[i], [longitude |-> lons[i], isRetrograde |-> FALSE])]

\* up to MaxBodies placements at the longitudes of AlignLons, or a crowded sky:
\* all seven planets within two opposite signs
InitAlign ==
    \/ \E n \in 2..MaxBodies : \E lons \in [1..n -> AlignLons] :
          alignCall = [stage |-> "called", dignities |-> PlacementsAt(lons), ret |-> <<>>]
    \/ \E lons \in [1..Len(PLANETS) -> {2, 9, 25, 185}] :
          alignCall = [stage |-> "called", dignities |-> PlacementsAt(lons), ret |-> <<>>]

CallDetectAlignments ==
    /\ alignCall.stage = "called"
    /\ alignCall' = [alignCall EXCEPT
            !.stage = "returned", !.ret = detectAlignments(alignCall.dignities)]
    /\ UNCHANGED <<sweInstance, initPromise, initCount, initStage, callers,
                   dignityCall, signCall, positionsRun, housesCall, profileCall,
                   rulerCall, moonCall, eventsCall, registry,
                   sourceCall>>

(***************************************************************************)
(* Temporal Ruler Calculator                                               *)
(*                                                                         *)
(* A Date is [time, month]: time in minutes of local time counted from the *)
(* midnight that begins a Sunday, month the calendar month 0..11.          *)
(***************************************************************************)
getDay(date) == (date.time \div 1440) % 7

getHours(date) == (date.time % 1440) \div 60

CHALDEAN_ORDER == <<"Saturn", "Jupiter", "Mars", "Sun", "Venus", "Mercury", "Moon">>

DAY_RULERS == <<"Sun", "Moon", "Mars", "Mercury", "Jupiter", "Venus", "Saturn">>

getDayRuler(date) == DAY_RULERS[getDay(date) + 1]

\* chaldeanOrder.indexOf(planet)
ChaldeanIndex(planet) == (CHOOSE i \in 1..7 : CHALDEAN_ORDER[i] = planet) - 1

\* the simplified ruler: one planetary hour per wall-clock hour
getHourRuler(date) ==
    CHALDEAN_ORDER[((ChaldeanIndex(getDayRuler(date)) + getHours(date)) % 7) + 1]

\* prevSunset || (sunset - 1 day)
NightStartBefore(sunset, prevSunset) ==
    IF prevSunset.present THEN prevSunset.time ELSE sunset - 1440

\* a night of non-positive length is not replaced by the day
HourSpan_NoNightFallback(currentTime, sunrise, sunset, prevSunset) ==
    LET isDay == currentTime >= sunrise /\ currentTime < sunset
        dayLength == sunset - sunrise
    IN  IF isDay
        THEN IF dayLength <= 0
             THEN LET nightStart == NightStartBefore(sunset, prevSunset)
                      nightLength == (sunrise + 1440) - nightStart
                  IN  [num |-> nightLength, den |-> 12, since |-> currentTime - nightStart]
             ELSE [num |-> dayLength, den |-> 12, since |-> currentTime - sunrise]
        ELSE LET nightStart == IF currentTime < sunrise
                               THEN NightStartBefore(sunset, prevSunset)
                               ELSE sunset
                 nightEnd == IF currentTime < sunrise THEN sunrise ELSE sunrise + 1440
                 nightLength == nightEnd - nightStart
             IN  [num |-> nightLength, den |-> 12, since |-> currentTime - nightStart]

\* hourLength (a fraction num / den of minutes), timeSinceStart
HourSpan(currentTime, sunrise, sunset, prevSunset) ==
    LET isDay == currentTime >= sunrise /\ currentTime < sunset
        dayLength == sunset - sunrise
    IN  IF isDay
        THEN IF dayLength <= 0
             THEN LET nightStart == NightStartBefore(sunset, prevSunset)
                      nightLength == (sunrise + 1440) - nightStart
                  IN  [num |-> nightLength, den |-> 12, since |-> currentTime - nightStart]
             ELSE [num |-> dayLength, den |-> 12, since |-> currentTime - sunrise]
        ELSE LET nightStart == IF currentTime < sunrise
                               THEN NightStartBefore(sunset, prevSunset)
                               ELSE sunset
                 nightEnd == IF currentTime < sunrise THEN sunrise ELSE sunrise + 1440
                 nightLength == nightEnd - nightStart
             IN  IF nightLength <= 0
                 THEN IF dayLength > 0
                      THEN [num |-> dayLength, den |-> 12, since |-> currentTime - sunrise]
                      ELSE [num |-> 60, den |-> 1, since |-> currentTime - sunrise]
                 ELSE [num |-> nightLength, den |-> 12, since |-> currentTime - nightStart]

\* the hourLength that divides timeSinceStart, after the validity test
HourLength(span) ==
    IF span.num <= 0 THEN [num |-> 60, den |-> 1]
    ELSE [num |-> span.num, den |-> span.den]

\* the hour number is not clamped
getPlanetaryHour_NoClamp(date, sunrise, sunset, prevSunset) ==
    LET currentTime == date.time
        dayRulerIndex == ChaldeanIndex(DAY_RULERS[getDay(date) + 1])
        span == HourSpan(currentTime, sunrise, sunset, prevSunset)
        timeSinceStart == IF span.since < 0 THEN 0 ELSE span.since
        hourLength == HourLength(span)
        hourNumber == (timeSinceStart * hourLength.den) \div hourLength.num
        hourIndex == (dayRulerIndex + hourNumber) % 7
    IN  [hour |-> hourNumber + 1,
         ruler |-> CHALDEAN_ORDER[hourIndex + 1],
         isDay |-> currentTime >= sunrise /\ currentTime < sunset]

getPlanetaryHour(date, sunrise, sunset, prevSunset) ==
    LET currentTime == date.time
        dayRulerIndex == ChaldeanIndex(DAY_RULERS[getDay(date) + 1])
        span == HourSpan(currentTime, sunrise, sunset, prevSunset)
        timeSinceStart == IF span.since < 0 THEN 0 ELSE span.since
        hourLength == HourLength(span)
        hourNumber == (timeSinceStart * hourLength.den) \div hourLength.num
        clampedHourNumber == Max(0, Min(11, hourNumber))
        hourIndex == (dayRulerIndex + clampedHourNumber) % 7
    IN  [hour |-> clampedHourNumber + 1,
         ruler |-> CHALDEAN_ORDER[hourIndex + 1],
         isDay |-> currentTime >= sunrise /\ currentTime < sunset]

getTattva(date, sunrise) ==
    LET minutesSinceSunrise == date.time - sunrise
        cyclePosition == JsRem(minutesSinceSunrise, 120)
    IN  IF cyclePosition < 24 THEN "Akasha"
        ELSE IF cyclePosition < 48 THEN "Vayu"
        ELSE IF cyclePosition < 72 THEN "Tejas"
        ELSE IF cyclePosition < 96 THEN "Apas"
        ELSE "Prithvi"

tattvaToElement(tattva) ==
    CASE tattva = "Akasha" -> "Spirit"
      [] tattva = "Vayu" -> "Air"
      [] tattva = "Tejas" -> "Fire"
      [] tattva = "Apas" -> "Water"
      [] tattva = "Prithvi" -> "Earth"

getPlanetaryHourElement(planet) ==
    CASE planet \in {"Sun", "Mars"} -> "Fire"
      [] planet \in {"Jupiter", "Mercury"} -> "Air"
      [] planet \in {"Moon", "Venus"} -> "Water"
      [] planet = "Saturn" -> "Earth"

getSeason(date, latitude) ==
    LET month == date.month
    IN  IF latitude >= 0
        THEN IF month >= 2 /\ month <= 4 THEN "Spring"
             ELSE IF month >= 5 /\ month <= 7 THEN "Summer"
             ELSE IF month >= 8 /\ month <= 10 THEN "Fall"
             ELSE "Winter"
        ELSE IF month >= 2 /\ month <= 4 THEN "Fall"
             ELSE IF month >= 5 /\ month <= 7 THEN "Winter"
             ELSE IF month >= 8 /\ month <= 10 THEN "Spring"
             ELSE "Summer"

\* the optional previous sunset, as an offset from the midnight of the query day
PrevSunsets ==
    {[present |-> FALSE, time |-> 0]}
        \cup {[present |-> TRUE, time |-> t] : t \in {-360, 360, 720}}

\* weekdays, times of day, and sunrise and sunset offsets from the midnight of the
\* query day (in minutes); they include sunrise = sunset, a sunset before the
\* sunrise, and nights of zero and negative length
InitRuler ==
    \E day \in {0, 3, 6},
       tod \in {0, 120, 330, 360, 390, 719, 720, 1080, 1200, 1439},
       rise \in {-1080, 360, 720, 1080},
       set \in {360, 720, 1080, 1800, 2520},
       prev \in PrevSunsets :
        rulerCall = [stage |-> "called",
                     date |-> [time |-> day * 1440 + tod, month |-> 0],
                     sunrise |-> day * 1440 + rise,
                     sunset |-> day * 1440 + set,
                     prevSunset |-> [prev EXCEPT !.time = day * 1440 + prev.time],
                     hourDone |-> FALSE,
                     hourLength |-> [num |-> 0, den |-> 1],
                     planetaryHour |-> [hour |-> 0, ruler |-> "none", isDay |-> FALSE],
                     tattvaDone |-> FALSE,
                     tattva |-> "none"]

CallGetPlanetaryHour ==
    /\ rulerCall.stage = "called"
    /\ ~rulerCall.hourDone
    /\ rulerCall' = [rulerCall EXCEPT
            !.hourDone = TRUE,
            !.hourLength = HourLength(HourSpan(rulerCall.date.time, rulerCall.sunrise,
                                               rulerCall.sunset, rulerCall.prevSunset)),
            !.planetaryHour = getPlanetaryHour(rulerCall.date, rulerCall.sunrise,
                                               rulerCall.sunset, rulerCall.prevSunset)]
    /\ UNCHANGED <<sweInstance, initPromise, initCount, initStage, callers,
                   dignityCall, signCall, positionsRun, housesCall, alignCall,
                   profileCall, moonCall, eventsCall, registry,
                   sourceCall>>

CallGetTattva ==
    /\ rulerCall.stage = "called"
    /\ ~rulerCall.tattvaDone
    /\ rulerCall' = [rulerCall EXCEPT
            !.tattvaDone = TRUE,
            !.tattva = getTattva(rulerCall.date, rulerCall.sunrise)]
    /\ UNCHANGED <<sweInstance, initPromise, initCount, initStage, callers,
                   dignityCall, signCall, positionsRun, housesCall, alignCall,
                   profileCall, moonCall, eventsCall, registry,
                   sourceCall>>

NextRuler == CallGetPlanetaryHour \/ CallGetTattva

(***************************************************************************)
(* Elemental Profile Accumulator: calculateElementalProfile                *)
(*                                                                         *)
(* Element values are counted in eighteenths of a percentage point, which  *)
(* makes 13.5 and the latitude terms (multiples of 40/45 and 20/45 for a   *)
(* latitude in whole degrees) whole numbers.  Spirit is the fraction       *)
(* num / den of percentage points.  An event name is the set of the        *)
(* lower-case words it includes.                                           *)
(***************************************************************************)
MaxEvents == 2

\* x percentage points
U(x) == 18 * x

ZeroBuffs == [fire |-> 0, earth |-> 0, air |-> 0, water |-> 0]

\* buffs[element.toLowerCase()] += amount
AddTo(buffs, element, amount) ==
    CASE element = "Fire" -> [buffs EXCEPT !.fire = @ + amount]
      [] element = "Earth" -> [buffs EXCEPT !.earth = @ + amount]
      [] element = "Air" -> [buffs EXCEPT !.air = @ + amount]
      [] element = "Water" -> [buffs EXCEPT !.water = @ + amount]
      [] OTHER -> buffs

Plus(a, b) ==
    [fire |-> a.fire + b.fire, earth |-> a.earth + b.earth,
     air |-> a.air + b.air, water |-> a.water + b.water]

RECURSIVE SumBuffs(_)
SumBuffs(seq) == IF seq = <<>> THEN ZeroBuffs ELSE Plus(seq[1], SumBuffs(Tail(seq)))

RECURSIVE SumInts(_)
SumInts(seq) == IF seq = <<>> THEN 0 ELSE seq[1] + SumInts(Tail(seq))

\* the Sun counts 9, the weight before the 1.5x multiplier
PositionBuff_SunNotMultiplied(dignity) ==
    AddTo(ZeroBuffs, SIGN_ELEMENTS[dignity.sign],
          CASE dignity.planet = "Sun" -> U(9)
            [] dignity.planet = "Moon" -> U(9)
            [] dignity.planet \in {"Mercury", "Venus", "Mars", "Jupiter", "Saturn"} -> U(6)
            [] OTHER -> 0)

\* 1. Planetary Position Buffs: the switch on dignity.planet
PositionBuff(dignity) ==
    AddTo(ZeroBuffs, SIGN_ELEMENTS[dignity.sign],
          CASE dignity.planet = "Sun" -> 243
            [] dignity.planet = "Moon" -> U(9)
            [] dignity.planet \in {"Mercury", "Venus", "Mars", "Jupiter", "Saturn"} -> U(6)
            [] OTHER -> 0)

\* what dignities.forEach adds to buffs
PositionBuffs(dignities) ==
    SumBuffs([i \in 1..Len(dignities) |-> PositionBuff(dignities[i])])

\* 2. Tattva Hour Buff
TattvaBuff(tattvaElement) == AddTo(ZeroBuffs, tattvaElement, U(15))

\* 3. Planetary Hour Buff
HourBuff(planetaryHourElement) == AddTo(ZeroBuffs, planetaryHourElement, U(11))

\* 4. Constant Buffs
ConstantBuffs == [fire |-> U(5), earth |-> U(12), air |-> U(10), water |-> U(5)]

\* Math.abs is left out
LatitudeBuffs_NoAbs(locationLatitude) ==
    LET latitude == locationLatitude
    IN  IF latitude <= 45
        THEN [fire |-> 16 * (45 - latitude), earth |-> 0, air |-> 0,
              water |-> -8 * (45 - latitude)]
        ELSE [fire |-> -8 * (latitude - 45), earth |-> 0, air |-> 0,
              water |-> 16 * (latitude - 45)]

\* 5. Latitude-based Buffs: 40 * (1 - latitude / 45) is 16 * (45 - latitude) eighteenths
LatitudeBuffs(locationLatitude) ==
    LET latitude == Abs(locationLatitude)
    IN  IF latitude <= 45
        THEN [fire |-> 16 * (45 - latitude), earth |-> 0, air |-> 0,
              water |-> -8 * (45 - latitude)]
        ELSE [fire |-> -8 * (latitude - 45), earth |-> 0, air |-> 0,
              water |-> 16 * (latitude - 45)]

\* 6. Time-based Buffs
TimeBuffs(hour) ==
    [fire |-> IF hour >= 9 /\ hour < 16 THEN U(14) ELSE 0, earth |-> 0, air |-> 0,
     water |-> IF hour >= 20 \/ hour < 3 THEN U(14) ELSE 0]

\* event.name.toLowerCase().includes(word)
NameIncludes(event, word) == word \in event.name

\* isHappening, the same test in the three loops over events
IsHappening(event, date) ==
    LET diff == Abs(date.time - event.date)
    IN  IF event.type \in {"Solstice", "Equinox"} THEN diff <= 1440
        ELSE IF event.type = "Meteor Shower"
                \/ (event.type = "Planetary Alignment" /\ NameIncludes(event, "comet"))
        THEN diff <= 3 * 1440
        ELSE IF event.type \in {"Eclipse", "Planetary Alignment"} THEN diff <= 24 * 60
        ELSE FALSE

\* 6. Event-based Buffs: the switch of the first loop over events
EventBuff(event, date) ==
    IF ~IsHappening(event, date) THEN ZeroBuffs
    ELSE CASE event.type = "Meteor Shower" -> [ZeroBuffs EXCEPT !.fire = U(11)]
           [] event.type = "Equinox" -> [ZeroBuffs EXCEPT !.earth = U(20)]
           [] event.type = "Eclipse" ->
                IF NameIncludes(event, "solar")
                THEN [ZeroBuffs EXCEPT !.water = U(18), !.fire = -U(18)]
                ELSE IF NameIncludes(event, "lunar")
                THEN [ZeroBuffs EXCEPT !.water = -U(18), !.fire = U(4)]
                ELSE ZeroBuffs
           [] event.type = "Solstice" ->
                IF NameIncludes(event, "summer")
                THEN [ZeroBuffs EXCEPT !.earth = U(11), !.fire = U(6)]
                ELSE IF NameIncludes(event, "winter")
                THEN [ZeroBuffs EXCEPT !.earth = U(11), !.water = U(6)]
                ELSE [ZeroBuffs EXCEPT !.earth = U(11)]
           [] OTHER -> ZeroBuffs

\* 7. Season-based Buffs
SeasonBuffs(season) ==
    CASE season = "Winter" -> [ZeroBuffs EXCEPT !.water = U(16)]
      [] season = "Fall" -> [ZeroBuffs EXCEPT !.air = U(16)]
      [] season = "Spring" -> [ZeroBuffs EXCEPT !.earth = U(16)]
      [] season = "Summer" -> [ZeroBuffs EXCEPT !.fire = U(16)]

\* 8. Weather-based Buffs; "none" is the null weather
WeatherBuffs(weather) ==
    CASE weather = "Clear" -> [ZeroBuffs EXCEPT !.earth = U(5), !.air = U(2)]
      [] weather = "Sunny" -> [ZeroBuffs EXCEPT !.fire = U(16)]
      [] weather = "Windy" -> [ZeroBuffs EXCEPT !.air = U(22)]
      [] weather = "Drizzle" -> [ZeroBuffs EXCEPT !.water = U(16), !.air = U(3)]
      [] weather = "Rainstorm" -> [ZeroBuffs EXCEPT !.water = U(22), !.air = U(22)]
      [] weather = "ThunderStorm" ->
            [ZeroBuffs EXCEPT !.water = U(22), !.air = U(22), !.fire = U(11)]
      [] OTHER -> ZeroBuffs

\* the buffs record after sources 1 to 8
Buffs(date, latitude, weather, events, dignities, tattvaElement, planetaryHourElement) ==
    SumBuffs(<<
        PositionBuffs(dignities),
        TattvaBuff(tattvaElement),
        HourBuff(planetaryHourElement),
        ConstantBuffs,
        LatitudeBuffs(latitude),
        TimeBuffs(getHours(date)),
        SumBuffs([i \in 1..Len(events) |-> EventBuff(events[i], date)]),
        SeasonBuffs(getSeason(date, latitude)),
        WeatherBuffs(weather) >>)

BasePercentages == [fire |-> U(50), earth |-> U(50), air |-> U(60), water |-> U(50)]

\* a Stellium counts per planet, like the other alignments
AlignmentAkasha_StelliumPerBody(alignment) ==
    CASE alignment.type = "Conjunction" -> Len(alignment.planets) * 7
      [] alignment.type = "Opposition" -> -Len(alignment.planets) * 12
      [] alignment.type = "Linear" -> Len(alignment.planets) * 8
      [] alignment.type = "Stellium" -> Len(alignment.planets) * 30
      [] OTHER -> 0

\* Akasha: the contribution of one alignment
AlignmentAkasha(alignment) ==
    CASE alignment.type = "Conjunction" -> Len(alignment.planets) * 7
      [] alignment.type = "Opposition" -> -Len(alignment.planets) * 12
      [] alignment.type = "Linear" -> Len(alignment.planets) * 8
      [] alignment.type = "Stellium" -> 30
      [] OTHER -> 0

\* Akasha: the contribution of one event (second loop over events)
EventAkasha(event, date) ==
    IF ~IsHappening(event, date) THEN 0
    ELSE CASE event.type = "Eclipse" -> 100
           [] event.type = "Solstice" -> 20
           [] event.type = "Equinox" -> 9
           [] event.type = "Meteor Shower" -> 15
           [] event.type = "Planetary Alignment" ->
                IF NameIncludes(event, "comet") THEN 15 ELSE 0
           [] OTHER -> 0

HourAkasha(ruler) ==
    CASE ruler = "Saturn" -> 9
      [] ruler \in {"Jupiter", "Sun", "Moon"} -> 4
      [] OTHER -> 0

\* the test rangePercent >= 15 is left out
BalanceBonus_NoThreshold(temp) ==
    LET minValue == Min(Min(temp.fire, temp.earth), Min(temp.air, temp.water))
        maxValue == Max(Max(temp.fire, temp.earth), Max(temp.air, temp.water))
        range == maxValue - minValue
    IN  IF maxValue > 0
        THEN [num |-> 60 * maxValue - 400 * range, den |-> 3 * maxValue]
        ELSE [num |-> 0, den |-> 1]

\* balanceBonus as a fraction: 20 * (1 - rangePercent / 15) with
\* rangePercent = (range / maxValue) * 100 is (60 max - 400 range) / (3 max)
BalanceBonus(temp) ==
    LET minValue == Min(Min(temp.fire, temp.earth), Min(temp.air, temp.water))
        maxValue == Max(Max(temp.fire, temp.earth), Max(temp.air, temp.water))
        range == maxValue - minValue
    IN  IF maxValue > 0 /\ 100 * range < 15 * maxValue
        THEN [num |-> 60 * maxValue - 400 * range, den |-> 3 * maxValue]
        ELSE [num |-> 0, den |-> 1]

\* Math.max(0, ...) is left out
Floored_NoFloor(values) == values

Floored(values) ==
    [fire |-> Max(0, values.fire), earth |-> Max(0, values.earth),
     air |-> Max(0, values.air), water |-> Max(0, values.water)]

\* the running Akasha total before the floor, as the fraction num / den
AkashaTotal(date, events, dignities, tattva, ruler, buffs) ==
    LET alignments == detectAlignments(dignities)
        whole == 25
            + SumInts([i \in 1..Len(alignments) |-> AlignmentAkasha(alignments[i])])
            + (IF tattva = "Akasha" THEN 15 ELSE 0)
            + SumInts([i \in 1..Len(events) |-> EventAkasha(events[i], date)])
            + HourAkasha(ruler)
            - 9 * Cardinality({i \in 1..Len(dignities) : dignities[i].dignity = "Detriment"})
            - 12 * Cardinality({i \in 1..Len(dignities) : dignities[i].isRetrograde})
        bonus == BalanceBonus(Floored(Plus(BasePercentages, buffs)))
    IN  [num |-> whole * bonus.den + bonus.num, den |-> bonus.den]

\* the whole Akasha value, floored at zero
Akasha(date, events, dignities, tattva, ruler, buffs) ==
    LET total == AkashaTotal(date, events, dignities, tattva, ruler, buffs)
    IN  [num |-> Max(0, total.num), den |-> total.den]

(***************************************************************************)
(* calculateElementalProfile: the breakdown, recomputed for display        *)
(***************************************************************************)
ZeroSpirit == [num |-> 0, den |-> 1]

Entry(source, buffs, spirit) ==
    [source |-> source, fire |-> buffs.fire, earth |-> buffs.earth,
     air |-> buffs.air, water |-> buffs.water, spirit |-> spirit]

\* eventBuffs: the switch of the third loop over events
EventBuffDisplay(event, date) ==
    IF ~IsHappening(event, date) THEN ZeroBuffs
    ELSE CASE event.type = "Meteor Shower" -> [ZeroBuffs EXCEPT !.fire = U(11)]
           [] event.type = "Planetary Alignment" ->
                IF NameIncludes(event, "comet")
                THEN [ZeroBuffs EXCEPT !.fire = U(11)]
                ELSE ZeroBuffs
           [] event.type = "Equinox" -> [ZeroBuffs EXCEPT !.earth = U(20)]
           [] event.type = "Eclipse" ->
                IF NameIncludes(event, "solar")
                THEN [ZeroBuffs EXCEPT !.water = U(18), !.fire = -U(18)]
                ELSE IF NameIncludes(event, "lunar")
                THEN [ZeroBuffs EXCEPT !.water = -U(18), !.fire = U(4)]
                ELSE ZeroBuffs
           [] event.type = "Solstice" ->
                IF NameIncludes(event, "summer")
                THEN [ZeroBuffs EXCEPT !.earth = U(11), !.fire = U(6)]
                ELSE IF NameIncludes(event, "winter")
                THEN [ZeroBuffs EXCEPT !.earth = U(11), !.water = U(6)]
                ELSE [ZeroBuffs EXCEPT !.earth = U(11)]
           [] OTHER -> ZeroBuffs

\* positionBuffs: the if / else if / else on dignity.planet
PositionBuffDisplay(dignity) ==
    AddTo(ZeroBuffs, SIGN_ELEMENTS[dignity.sign],
          IF dignity.planet = "Sun" THEN 243
          ELSE IF dignity.planet = "Moon" THEN U(9)
          ELSE U(6))

\* latitudeBuffsDisplay
LatitudeBuffsDisplay(locationLatitude) ==
    LET latitude == Abs(locationLatitude)
    IN  IF latitude <= 45
        THEN [fire |-> 16 * (45 - latitude), earth |-> 0, air |-> 0,
              water |-> -8 * (45 - latitude)]
        ELSE [fire |-> -8 * (latitude - 45), earth |-> 0, air |-> 0,
              water |-> 16 * (latitude - 45)]

\* seasonBuffs
SeasonBuffsDisplay(season) ==
    IF season = "Summer" THEN [ZeroBuffs EXCEPT !.fire = U(16)]
    ELSE IF season = "Spring" THEN [ZeroBuffs EXCEPT !.earth = U(16)]
    ELSE IF season = "Fall" THEN [ZeroBuffs EXCEPT !.air = U(16)]
    ELSE IF season = "Winter" THEN [ZeroBuffs EXCEPT !.water = U(16)]
    ELSE ZeroBuffs

\* the "Planetary Positions" entry pushed on the breakdown
PositionEntry(dignities) ==
    Entry("Planetary Positions",
          SumBuffs([i \in 1..Len(dignities) |-> PositionBuffDisplay(dignities[i])]),
          ZeroSpirit)

\* the breakdown list, in the order of the pushes
Breakdown(date, latitude, weather, events, dignities, tattvaElement, hourElement, akasha) ==
    LET activeEvents == SelectSeq(events, LAMBDA e : IsHappening(e, date))
        hour == getHours(date)
    IN  (IF Len(activeEvents) > 0
         THEN << Entry("Astrological Events",
                       SumBuffs([i \in 1..Len(events) |->
                                    EventBuffDisplay(events[i], date)]),
                       ZeroSpirit) >>
         ELSE <<>>)
        \o << PositionEntry(dignities),
              Entry("Tattva", AddTo(ZeroBuffs, tattvaElement, U(15)), ZeroSpirit),
              Entry("Planetary Hour", AddTo(ZeroBuffs, hourElement, U(11)),
                    ZeroSpirit),
              Entry("Base Percentages",
                    [fire |-> U(50), earth |-> U(50), air |-> U(60), water |-> U(50)],
                    ZeroSpirit),
              Entry("Constants",
                    [fire |-> U(5), earth |-> U(12), air |-> U(10), water |-> U(5)],
                    ZeroSpirit),
              Entry("Latitude", LatitudeBuffsDisplay(latitude), ZeroSpirit),
              Entry("Time of Day",
                    [fire |-> IF hour >= 9 /\ hour < 16 THEN U(14) ELSE 0,
                     earth |-> 0, air |-> 0,
                     water |-> IF hour >= 20 \/ hour < 3 THEN U(14) ELSE 0],
                    ZeroSpirit),
              Entry("Season", SeasonBuffsDisplay(getSeason(date, latitude)), ZeroSpirit) >>
        \o (IF weather # "none"
            THEN << Entry("Weather", WeatherBuffs(weather), ZeroSpirit) >>
            ELSE <<>>)
        \o << Entry("Akasha", ZeroBuffs, akasha) >>

\* the planetary hour of the profile: the previous sunset is the sunset of the day
\* before when the instant is before the sunrise, else the sunset of the day
PlanetaryHourOf(date, sun) ==
    getPlanetaryHour(date, sun.sunrise, sun.sunset,
        [present |-> TRUE,
         time |-> IF date.time < sun.sunrise THEN sun.prevDaySunset ELSE sun.sunset])

\* sun is what calculateSunriseSunset returns for the day and for the day before;
\* sky is what getAllPlanetaryDignities sees
calculateElementalProfile(date, location, weather, events, sun, sky) ==
    LET sunrise == sun.sunrise
        sunset == sun.sunset
        planetaryHour == PlanetaryHourOf(date, sun)
        tattva == getTattva(date, sunrise)
        tattvaElement == tattvaToElement(tattva)
        dignities == DignitiesOf(sky)
        planetaryHourElement == getPlanetaryHourElement(planetaryHour.ruler)
        buffs == Buffs(date, location.latitude, weather, events, dignities,
                       tattvaElement, planetaryHourElement)
        akasha == Akasha(date, events, dignities, tattva, planetaryHour.ruler, buffs)
        totals == Floored(Plus(BasePercentages, buffs))
    IN  [fire |-> totals.fire, earth |-> totals.earth, air |-> totals.air,
         water |-> totals.water, spirit |-> akasha,
         planetaryHour |-> planetaryHour.ruler, tattva |-> tattva,
         moonSign |-> dignities[2].sign,
         breakdown |-> Breakdown(date, location.latitude, weather, events, dignities,
                                 tattvaElement, planetaryHourElement, akasha)]

\* the query instants, each with the sunrise and sunset of its day and the
\* sunset of the day before
ProfileClocks ==
    { [date |-> [time |-> 120, month |-> 0],
       sun |-> [sunrise |-> 450, sunset |-> 1020, prevDaySunset |-> -421]],
      [date |-> [time |-> 3 * 1440 + 630, month |-> 6],
       sun |-> [sunrise |-> 3 * 1440 + 330, sunset |-> 3 * 1440 + 1230,
                prevDaySunset |-> 2 * 1440 + 1231]],
      [date |-> [time |-> 6 * 1440 + 1030, month |-> 3],
       sun |-> [sunrise |-> 6 * 1440 + 390, sunset |-> 6 * 1440 + 1170,
                prevDaySunset |-> 5 * 1440 + 1169]],
      [date |-> [time |-> 1440 + 1330, month |-> 9],
       sun |-> [sunrise |-> 1440 + 400, sunset |-> 1440 + 1100,
                prevDaySunset |-> 1102]] }

ProfileLatitudes == {-60, 0, 45, 90}

Weathers == {"none", "Clear", "Sunny", "Windy", "Drizzle", "Rainstorm", "ThunderStorm"}

\* events of every type, sorted by date
EventPool ==
    << [type |-> "Solstice", name |-> {"summer", "solstice"}, date |-> 3510],
       [type |-> "Equinox", name |-> {"spring", "equinox"}, date |-> 4211],
       [type |-> "Eclipse", name |-> {"total", "solar", "eclipse"}, date |-> 4350],
       [type |-> "Eclipse", name |-> {"total", "lunar", "eclipse"}, date |-> 4800],
       [type |-> "Eclipse", name |-> {"partial", "lunar", "eclipse"}, date |-> 5000],
       [type |-> "Planetary Alignment", name |-> {"venus", "jupiter"}, date |-> 5300],
       [type |-> "Planetary Alignment", name |-> {"comet", "neowise"}, date |-> 6950],
       [type |-> "Meteor Shower", name |-> {"perseids"}, date |-> 9270] >>

\* the events of the pool at the chosen places, in the order of the pool
EventsAt(places) ==
    LET idx == SelectSeq([i \in 1..Len(EventPool) |-> i], LAMBDA i : i \in places)
    IN  [m \in 1..Len(idx) |-> EventPool[idx[m]]]

InitProfile ==
    \E clock \in ProfileClocks, lat \in ProfileLatitudes, weather \in Weathers,
       k \in 1..Len(Skies), places \in SUBSET (1..Len(EventPool)) :
        /\ Cardinality(places) <= MaxEvents
        /\ profileCall = [stage |-> "called", date |-> clock.date, sun |-> clock.sun,
                          location |-> [latitude |-> lat], weather |-> weather,
                          events |-> EventsAt(places), sky |-> k]

CallElementalProfile ==
    /\ profileCall.stage = "called"
    /\ profileCall' =
          [stage |-> "returned", date |-> profileCall.date, sun |-> profileCall.sun,
           location |-> profileCall.location, weather |-> profileCall.weather,
           events |-> profileCall.events, sky |-> profileCall.sky,
           ret |-> calculateElementalProfile(profileCall.date, profileCall.location,
                       profileCall.weather, profileCall.events, profileCall.sun,
                       Skies[profileCall.sky])]
    /\ UNCHANGED <<sweInstance, initPromise, initCount, initStage, callers,
                   dignityCall, signCall, positionsRun, housesCall, alignCall,
                   rulerCall, moonCall, eventsCall, registry,
                   sourceCall>>

(***************************************************************************)
(* Moon phase: getMoonPhase                                                *)
(*                                                                         *)
(* Longitudes and the elongation are counted in steps of 2.5 degrees (144  *)
(* to the circle, 22.5 degrees = 9 steps); illumination and age are in     *)
(* tenths, as rounded by Math.round(x * 10) / 10.                          *)
(***************************************************************************)
\* Math.round(((1 - Math.cos(elongation * Math.PI / 180)) / 2) * 100 * 10), by step
ILLUMINATION ==
    << 0, 0, 2, 4, 8, 12, 17, 23, 30, 38, 47, 56,
       67, 78, 90, 103, 117, 131, 146, 162, 179, 196, 213, 231,
       250, 269, 289, 309, 329, 350, 371, 392, 413, 435, 456, 478,
       500, 522, 544, 565, 587, 608, 629, 650, 671, 691, 711, 731,
       750, 769, 787, 804, 821, 838, 854, 869, 883, 897, 910, 922,
       933, 944, 953, 962, 970, 977, 983, 988, 992, 996, 998, 1000,
       1000, 1000, 998, 996, 992, 988, 983, 977, 970, 962, 953, 944,
       933, 922, 910, 897, 883, 869, 854, 838, 821, 804, 787, 769,
       750, 731, 711, 691, 671, 650, 629, 608, 587, 565, 544, 522,
       500, 478, 456, 435, 413, 392, 371, 350, 329, 309, 289, 269,
       250, 231, 213, 196, 179, 162, 146, 131, 117, 103, 90, 78,
       67, 56, 47, 38, 30, 23, 17, 12, 8, 4, 2, 0 >>

\* Math.round((elongation / 360) * 29.53058867 * 10), by step
MOON_AGE ==
    << 0, 2, 4, 6, 8, 10, 12, 14, 16, 18, 21, 23,
       25, 27, 29, 31, 33, 35, 37, 39, 41, 43, 45, 47,
       49, 51, 53, 55, 57, 59, 62, 64, 66, 68, 70, 72,
       74, 76, 78, 80, 82, 84, 86, 88, 90, 92, 94, 96,
       98, 100, 103, 105, 107, 109, 111, 113, 115, 117, 119, 121,
       123, 125, 127, 129, 131, 133, 135, 137, 139, 142, 144, 146,
       148, 150, 152, 154, 156, 158, 160, 162, 164, 166, 168, 170,
       172, 174, 176, 178, 180, 183, 185, 187, 189, 191, 193, 195,
       197, 199, 201, 203, 205, 207, 209, 211, 213, 215, 217, 219,
       221, 224, 226, 228, 230, 232, 234, 236, 238, 240, 242, 244,
       246, 248, 250, 252, 254, 256, 258, 260, 262, 265, 267, 269,
       271, 273, 275, 277, 279, 281, 283, 285, 287, 289, 291, 293 >>

\* negative elongations are not brought back into the circle
getMoonPhase_NoWrap(sunLongitude, moonLongitude) ==
    LET elongation == moonLongitude - sunLongitude
        shown == elongation % 144
        phase == IF elongation < 9 \/ elongation >= 135 THEN "New Moon"
                 ELSE IF elongation < 27 THEN "Waxing Crescent"
                 ELSE IF elongation < 45 THEN "First Quarter"
                 ELSE IF elongation < 63 THEN "Waxing Gibbous"
                 ELSE IF elongation < 81 THEN "Full Moon"
                 ELSE IF elongation < 99 THEN "Waning Gibbous"
                 ELSE IF elongation < 117 THEN "Last Quarter"
                 ELSE "Waning Crescent"
    IN  [phase |-> phase, illumination |-> ILLUMINATION[shown + 1],
         age |-> MOON_AGE[shown + 1]]

getMoonPhase(sunLongitude, moonLongitude) ==
    LET raw == moonLongitude - sunLongitude
        wrapped == IF raw < 0 THEN raw + 144 ELSE raw
        elongation == IF wrapped >= 144 THEN wrapped - 144 ELSE wrapped
        phase == IF elongation < 9 \/ elongation >= 135 THEN "New Moon"
                 ELSE IF elongation < 27 THEN "Waxing Crescent"
                 ELSE IF elongation < 45 THEN "First Quarter"
                 ELSE IF elongation < 63 THEN "Waxing Gibbous"
                 ELSE IF elongation < 81 THEN "Full Moon"
                 ELSE IF elongation < 99 THEN "Waning Gibbous"
                 ELSE IF elongation < 117 THEN "Last Quarter"
                 ELSE "Waning Crescent"
    IN  [phase |-> phase, illumination |-> ILLUMINATION[elongation + 1],
         age |-> MOON_AGE[elongation + 1]]

\* the Sun's longitudes of the runs; the Moon takes every step of the circle
InitMoon ==
    \E sun \in {0, 1, 36, 72, 100, 143}, moon \in 0..143 :
        moonCall = [stage |-> "called", sunLongitude |-> sun, moonLongitude |-> moon,
                    ret |-> [phase |-> "none", illumination |-> 0, age |-> 0]]

CallGetMoonPhase ==
    /\ moonCall.stage = "called"
    /\ moonCall' = [moonCall EXCEPT
            !.stage = "returned",
            !.ret = getMoonPhase(moonCall.sunLongitude, moonCall.moonLongitude)]
    /\ UNCHANGED <<sweInstance, initPromise, initCount, initStage, callers,
                   dignityCall, signCall, positionsRun, housesCall, alignCall,
                   profileCall, rulerCall, eventsCall, registry,
                   sourceCall>>

(***************************************************************************)
(* Event Forecaster: getUpcomingEvents                                     *)
(*                                                                         *)
(* An instant is a whole number of half days counted from the midnight     *)
(* that begins year 0; every year has 365 days.  An event date is a local  *)
(* midnight.  An event name is the set of the lower-case words it includes.*)
(***************************************************************************)
MONTH_START == <<0, 31, 59, 90, 120, 151, 181, 212, 243, 273, 304, 334>>

\* new Date(year, month, day), month counted from 0
DateOf(year, month, day) == 2 * (365 * year + MONTH_START[month + 1] + day - 1)

getFullYear(instant) == instant \div 730

\* the four seasonal events of a year, in the order of the pushes
SeasonalEvents(year) ==
    << [type |-> "Equinox", name |-> {"spring", "equinox"}, date |-> DateOf(year, 2, 20)],
       [type |-> "Solstice", name |-> {"summer", "solstice"}, date |-> DateOf(year, 5, 21)],
       [type |-> "Equinox", name |-> {"autumn", "equinox"}, date |-> DateOf(year, 8, 22)],
       [type |-> "Solstice", name |-> {"winter", "solstice"}, date |-> DateOf(year, 11, 21)] >>

METEOR_SHOWERS ==
    << [name |-> {"quadrantids"}, month |-> 0, day |-> 3],
       [name |-> {"lyrids"}, month |-> 3, day |-> 22],
       [name |-> {"perseids"}, month |-> 7, day |-> 12],
       [name |-> {"orionids"}, month |-> 9, day |-> 21],
       [name |-> {"leonids"}, month |-> 10, day |-> 17],
       [name |-> {"geminids"}, month |-> 11, day |-> 14] >>

\* the seasonal events of the years from..to, year by year
RECURSIVE SeasonalFrom(_, _)
SeasonalFrom(from, to) ==
    IF from > to THEN <<>> ELSE SeasonalEvents(from) \o SeasonalFrom(from + 1, to)

\* the meteor showers, each in the current year or, if that is before the start,
\* in the year after
ShowerEvents(startDate) ==
    [i \in 1..Len(METEOR_SHOWERS) |->
        LET shower == METEOR_SHOWERS[i]
            thisYear == DateOf(getFullYear(startDate), shower.month, shower.day)
        IN  [type |-> "Meteor Shower", name |-> shower.name,
             date |-> IF thisYear < startDate
                      THEN DateOf(getFullYear(startDate) + 1, shower.month, shower.day)
                      ELSE thisYear]]

\* events.sort((a, b) => a.date.getTime() - b.date.getTime()), a stable sort
RECURSIVE InsertByDate(_, _)
InsertByDate(sorted, event) ==
    IF sorted = <<>> THEN <<event>>
    ELSE IF sorted[Len(sorted)].date <= event.date THEN Append(sorted, event)
    ELSE Append(InsertByDate(SubSeq(sorted, 1, Len(sorted) - 1), event),
                sorted[Len(sorted)])

RECURSIVE SortByDate(_)
SortByDate(events) ==
    IF events = <<>> THEN <<>>
    ELSE InsertByDate(SortByDate(SubSeq(events, 1, Len(events) - 1)),
                      events[Len(events)])

\* the events pushed for the window, in the order of the pushes
PushedEvents(startDate, daysAhead) ==
    LET endDate == startDate + 2 * daysAhead
        inWindow(e) == e.date >= startDate /\ e.date <= endDate
    IN  SelectSeq(SeasonalFrom(getFullYear(startDate), getFullYear(endDate)), inWindow)
            \o SelectSeq(ShowerEvents(startDate), inWindow)

\* the list is not sorted
getUpcomingEvents_NoSort(startDate, daysAhead) ==
    LET events == PushedEvents(startDate, daysAhead)
    IN  SubSeq(events, 1, Min(10, Len(events)))

getUpcomingEvents(startDate, daysAhead) ==
    LET events == SortByDate(PushedEvents(startDate, daysAhead))
    IN  SubSeq(events, 1, Min(10, Len(events)))

\* the start instants (days of the year, at midnight or at noon) and the windows
InitEvents ==
    \E day \in {0, 2, 3, 78, 79, 111, 171, 223, 264, 293, 320, 347, 354, 355, 364},
       half \in 0..1,
       daysAhead \in {0, 1, 11, 90, 200, 365, 366, 730, 1100} :
        eventsCall = [stage |-> "called", startDate |-> 2 * day + half,
                      daysAhead |-> daysAhead, ret |-> <<>>]

CallGetUpcomingEvents ==
    /\ eventsCall.stage = "called"
    /\ eventsCall' = [eventsCall EXCEPT
            !.stage = "returned",
            !.ret = getUpcomingEvents(eventsCall.startDate, eventsCall.daysAhead)]
    /\ UNCHANGED <<sweInstance, initPromise, initCount, initStage, callers,
                   dignityCall, signCall, positionsRun, housesCall, alignCall,
                   profileCall, rulerCall, moonCall, registry, sourceCall>>

(***************************************************************************)
(* The PlanetaryRegistry component                                         *)
(*                                                                         *)
(* The component holds the selected instant, weather and location, and the *)
(* values it displays.  Every change of an input starts one run of the     *)
(* effect, which captures the inputs and later resolves or rejects; runs   *)
(* are never cancelled.  A selected instant is a place in                  *)
(* RegistryClocks.  handed is the last value given to setHourRuler, with   *)
(* the computation it came from.                                           *)
(***************************************************************************)
MaxChanges == 2

RegistryClocks ==
    << [date |-> [time |-> 120, month |-> 0],
        sun |-> [sunrise |-> 450, sunset |-> 1020, prevDaySunset |-> -421]],
       [date |-> [time |-> 3 * 1440 + 630, month |-> 6],
        sun |-> [sunrise |-> 3 * 1440 + 330, sunset |-> 3 * 1440 + 1230,
                 prevDaySunset |-> 2 * 1440 + 1231]],
       [date |-> [time |-> 6 * 1440 + 1030, month |-> 3],
        sun |-> [sunrise |-> 6 * 1440 + 390, sunset |-> 6 * 1440 + 1170,
                 prevDaySunset |-> 5 * 1440 + 1169]] >>

NoLocation == [present |-> FALSE, latitude |-> 0]

\* the postal codes and what the geocoding service holds for them
ZipCodes == {"90210", "99501", "00000"}

Geocode(zip) ==
    CASE zip = "90210" -> [present |-> TRUE, latitude |-> 34]
      [] zip = "99501" -> [present |-> TRUE, latitude |-> 61]
      [] OTHER -> NoLocation

\* how the request to the geocoding service ends: a response that is ok, a
\* response that is not ok, or a failed request (fetch or json() throws)
FetchOutcomes == {"ok", "notOk", "failed"}

\* null is NoLocation; the catch clause turns every failure into null
zipCodeToLocation(zipCode, outcome) ==
    IF outcome = "ok" THEN Geocode(zipCode) ELSE NoLocation

RegistryWeathers == {"Clear", "Rainstorm"}

\* the effect: setIsLoading(true), setError(null) and the start of the computations
StartRun(reg, clock, location, weather) ==
    [reg EXCEPT
        !.clock = clock, !.location = location, !.weather = weather,
        !.isLoading = TRUE, !.error = FALSE,
        !.runs = @ \cup {[id |-> reg.nextId, clock |-> clock, location |-> location,
                          weather |-> weather]},
        !.nextId = @ + 1]

\* the state after the first render: the default lookup and the first run started
InitRegistry ==
    registry = [stage |-> "mounted", clock |-> 1, location |-> NoLocation,
                weather |-> "Clear", isLoading |-> TRUE, error |-> FALSE,
                dayRuler |-> "Sun", hourRuler |-> "Sun", profile |-> [present |-> FALSE, clock |-> 1, location |-> NoLocation,
                            weather |-> "Clear", planetaryHour |-> "none"],
                shownRun |-> -1,
                runs |-> {[id |-> 0, clock |-> 1, location |-> NoLocation,
                           weather |-> "Clear"]},
                nextId |-> 1, changes |-> 0,
                lookups |-> {[zip |-> "90210", typed |-> FALSE]},
                looked |-> [done |-> FALSE, typed |-> FALSE, found |-> FALSE],
                handed |-> [ruler |-> "Sun", simplified |-> FALSE, located |-> FALSE]]

\* the date or the time is changed
SelectDateTime ==
    /\ registry.stage = "mounted"
    /\ registry.changes < MaxChanges
    /\ \E clock \in 1..Len(RegistryClocks) :
        /\ clock # registry.clock
        /\ registry' = [StartRun(registry, clock, registry.location, registry.weather)
                           EXCEPT !.changes = @ + 1]
    /\ UNCHANGED <<sweInstance, initPromise, initCount, initStage, callers,
                   dignityCall, signCall, positionsRun, housesCall, alignCall,
                   profileCall, rulerCall, moonCall, eventsCall, sourceCall>>

\* another weather is selected
SelectWeather ==
    /\ registry.stage = "mounted"
    /\ registry.changes < MaxChanges
    /\ \E weather \in RegistryWeathers :
        /\ weather # registry.weather
        /\ registry' = [StartRun(registry, registry.clock, registry.location, weather)
                           EXCEPT !.changes = @ + 1]
    /\ UNCHANGED <<sweInstance, initPromise, initCount, initStage, callers,
                   dignityCall, signCall, positionsRun, housesCall, alignCall,
                   profileCall, rulerCall, moonCall, eventsCall, sourceCall>>

\* handleZipCodeChange: five digits start a lookup
TypeZipCode ==
    /\ registry.stage = "mounted"
    /\ registry.changes < MaxChanges
    /\ \E zip \in ZipCodes :
        /\ [zip |-> zip, typed |-> TRUE] \notin registry.lookups
        /\ registry' = [registry EXCEPT
                !.lookups = @ \cup {[zip |-> zip, typed |-> TRUE]},
                !.changes = @ + 1]
    /\ UNCHANGED <<sweInstance, initPromise, initCount, initStage, callers,
                   dignityCall, signCall, positionsRun, housesCall, alignCall,
                   profileCall, rulerCall, moonCall, eventsCall, sourceCall>>

\* what follows `await zipCodeToLocation(zip)`: in handleZipCodeChange (typed) and
\* in the effect that sets the default location
AfterLookup_DropsLocation(reg, typed, loc) ==
    IF loc.present
    THEN StartRun(reg, reg.clock, loc, reg.weather)
    ELSE IF typed THEN [reg EXCEPT !.error = TRUE, !.location = NoLocation]
    ELSE reg

AfterLookup(reg, typed, loc) ==
    IF loc.present
    THEN StartRun(reg, reg.clock, loc, reg.weather)
    ELSE IF typed THEN [reg EXCEPT !.error = TRUE]
    ELSE reg

\* zipCodeToLocation settles and its caller continues; looked records the
\* last lookup that settled: who asked, and whether a location came back
LookupResolves ==
    /\ registry.stage = "mounted"
    /\ \E lookup \in registry.lookups : \E outcome \in FetchOutcomes :
        LET loc == zipCodeToLocation(lookup.zip, outcome)
            rest == [registry EXCEPT
                        !.lookups = @ \ {lookup},
                        !.looked = [done |-> TRUE, typed |-> lookup.typed,
                                    found |-> loc.present]]
        IN  registry' = AfterLookup(rest, lookup.typed, loc)
    /\ UNCHANGED <<sweInstance, initPromise, initCount, initStage, callers,
                   dignityCall, signCall, positionsRun, housesCall, alignCall,
                   profileCall, rulerCall, moonCall, eventsCall, sourceCall>>

\* the profile a run computes, null without a location; a profile is held as the
\* arguments it was computed from and its planetaryHour, the field the component
\* reads
ProfileOfRun(run) ==
    IF run.location.present
    THEN [present |-> TRUE, clock |-> run.clock, location |-> run.location,
          weather |-> run.weather,
          planetaryHour |-> PlanetaryHourOf(RegistryClocks[run.clock].date,
                                            RegistryClocks[run.clock].sun).ruler]
    ELSE [present |-> FALSE, clock |-> run.clock, location |-> run.location,
          weather |-> run.weather, planetaryHour |-> "none"]

\* Promise.all resolves: the results of the run are stored
RunResolves ==
    /\ registry.stage = "mounted"
    /\ \E run \in registry.runs :
        LET profile == ProfileOfRun(run)
            dateTime == RegistryClocks[run.clock].date
            ruler == IF profile.present THEN profile.planetaryHour
                     ELSE getHourRuler(dateTime)
        IN  registry' = [registry EXCEPT
                !.runs = @ \ {run},
                !.profile = profile,
                !.dayRuler = getDayRuler(dateTime),
                !.hourRuler = ruler,
                !.shownRun = run.id,
                !.isLoading = FALSE,
                !.handed = [ruler |-> ruler, simplified |-> ~profile.present,
                            located |-> run.location.present]]
    /\ UNCHANGED <<sweInstance, initPromise, initCount, initStage, callers,
                   dignityCall, signCall, positionsRun, housesCall, alignCall,
                   profileCall, rulerCall, moonCall, eventsCall, sourceCall>>

\* Promise.all rejects (a computation of the run failed): the error is stored
RunRejects ==
    /\ registry.stage = "mounted"
    /\ \E run \in registry.runs :
        registry' = [registry EXCEPT
            !.runs = @ \ {run}, !.error = TRUE, !.isLoading = FALSE]
    /\ UNCHANGED <<sweInstance, initPromise, initCount, initStage, callers,
                   dignityCall, signCall, positionsRun, housesCall, alignCall,
                   profileCall, rulerCall, moonCall, eventsCall, sourceCall>>

NextRegistry ==
    \/ SelectDateTime
    \/ SelectWeather
    \/ TypeZipCode
    \/ LookupResolves
    \/ RunResolves
    \/ RunRejects

(***************************************************************************)
(* The sources of the elemental profile, one at a time                     *)
(*                                                                         *)
(* The elemental-balance step of calculateElementalProfile, applied to the *)
(* four floored element totals; a further call differs from the one before *)
(* in one total.  Totals are in eighteenths of a point.  No source lowers  *)
(* earth or air, so earth is at least 50 + 12 and air at least 60 + 10.    *)
(***************************************************************************)
\* the element totals of the calls, in points
TotalPoints == {0, 62, 70, 85, 86, 88, 100, 101, 120}

TempTotals ==
    { [fire |-> U(f), earth |-> U(e), air |-> U(a), water |-> U(w)] :
        f \in TotalPoints, e \in {x \in TotalPoints : x >= 62},
        a \in {x \in TotalPoints : x >= 70}, w \in TotalPoints }

InitBalance ==
    \E temp \in TempTotals : sourceCall = [stage |-> "called", temp |-> temp]

CallBalanceBonus ==
    /\ sourceCall.stage = "called"
    /\ sourceCall' = [stage |-> "returned", temp |-> sourceCall.temp,
                      balanceBonus |-> BalanceBonus(sourceCall.temp)]
    /\ UNCHANGED <<sweInstance, initPromise, initCount, initStage, callers,
                   dignityCall, signCall, positionsRun, housesCall, alignCall,
                   profileCall, rulerCall, moonCall, eventsCall, registry>>

\* the next call, with another fire or water total
CallBalanceBonusAgain ==
    /\ sourceCall.stage = "returned"
    /\ \E temp \in TempTotals :
        /\ temp.earth = sourceCall.temp.earth
        /\ temp.air = sourceCall.temp.air
        /\ temp.fire = sourceCall.temp.fire \/ temp.water = sourceCall.temp.water
        /\ temp # sourceCall.temp
        /\ sourceCall' = [stage |-> "returned", temp |-> temp,
                          balanceBonus |-> BalanceBonus(temp)]
    /\ UNCHANGED <<sweInstance, initPromise, initCount, initStage, callers,
                   dignityCall, signCall, positionsRun, housesCall, alignCall,
                   profileCall, rulerCall, moonCall, eventsCall, registry>>

NextBalance ==
    \/ CallBalanceBonus
    \/ CallBalanceBonusAgain

(***************************************************************************)
(* The latitude step of calculateElementalProfile and its recalculation    *)
(* for the breakdown, applied to a latitude in whole degrees; a further    *)
(* call takes the latitude mirrored at the equator.                        *)
(***************************************************************************)
InitLatitude ==
    \E latitude \in -90..90 : sourceCall = [stage |-> "called", latitude |-> latitude]

LatitudeResult(latitude) ==
    [stage |-> "returned", latitude |-> latitude,
     buffs |-> LatitudeBuffs(latitude), display |-> LatitudeBuffsDisplay(latitude)]

CallLatitudeBuffs ==
    /\ sourceCall.stage = "called"
    /\ sourceCall' = LatitudeResult(sourceCall.latitude)
    /\ UNCHANGED <<sweInstance, initPromise, initCount, initStage, callers,
                   dignityCall, signCall, positionsRun, housesCall, alignCall,
                   profileCall, rulerCall, moonCall, eventsCall, registry>>

\* the next call, for the same place in the other hemisphere
CallLatitudeBuffsMirrored ==
    /\ sourceCall.stage = "returned"
    /\ sourceCall.latitude # 0
    /\ sourceCall' = LatitudeResult(-sourceCall.latitude)
    /\ UNCHANGED <<sweInstance, initPromise, initCount, initStage, callers,
                   dignityCall, signCall, positionsRun, housesCall, alignCall,
                   profileCall, rulerCall, moonCall, eventsCall, registry>>

NextLatitude ==
    \/ CallLatitudeBuffs
    \/ CallLatitudeBuffsMirrored

(***************************************************************************)
(* The planetary-position step of calculateElementalProfile and its        *)
(* breakdown entry, applied to seven placements.  The signs of a call lie  *)
(* in a window of four consecutive signs, one of each element.             *)
(***************************************************************************)
\* the first signs of the windows, as places in ZODIAC_SIGNS
WindowStarts == {1, 5, 9}

InitPositionBuffs ==
    \E start \in WindowStarts, offset \in [1..7 -> 0..3] :
        sourceCall =
            [stage |-> "called",
             dignities |-> [i \in 1..7 |->
                              [planet |-> PLANETS[i],
                               sign |-> ZODIAC_SIGNS[start + offset[i]]]]]

CallPositionBuffs ==
    /\ sourceCall.stage = "called"
    /\ sourceCall' = [stage |-> "returned", dignities |-> sourceCall.dignities,
                      buffs |-> PositionBuffs(sourceCall.dignities),
                      entry |-> PositionEntry(sourceCall.dignities)]
    /\ UNCHANGED <<sweInstance, initPromise, initCount, initStage, callers,
                   dignityCall, signCall, positionsRun, housesCall, alignCall,
                   profileCall, rulerCall, moonCall, eventsCall, registry>>

(***************************************************************************)
(* Specifications: one per component                                       *)
(***************************************************************************)
InitSpecSingleton ==
    /\ InitSingleton
    /\ dignityCall = Idle
    /\ signCall = Idle
    /\ positionsRun = Idle
    /\ housesCall = Idle
    /\ alignCall = Idle
    /\ profileCall = Idle
    /\ rulerCall = Idle
    /\ moonCall = Idle
    /\ eventsCall = Idle
    /\ registry = Idle
    /\ sourceCall = Idle

SpecSingleton == InitSpecSingleton /\ [][NextSingleton]_vars

InitSpecDignity ==
    /\ InitSingleton
    /\ InitDignity
    /\ signCall = Idle
    /\ positionsRun = Idle
    /\ housesCall = Idle
    /\ alignCall = Idle
    /\ profileCall = Idle
    /\ rulerCall = Idle
    /\ moonCall = Idle
    /\ eventsCall = Idle
    /\ registry = Idle
    /\ sourceCall = Idle

SpecDignity == InitSpecDignity /\ [][CallDignityScore]_vars

InitSpecSign ==
    /\ InitSingleton
    /\ dignityCall = Idle
    /\ InitSign
    /\ positionsRun = Idle
    /\ housesCall = Idle
    /\ alignCall = Idle
    /\ profileCall = Idle
    /\ rulerCall = Idle
    /\ moonCall = Idle
    /\ eventsCall = Idle
    /\ registry = Idle
    /\ sourceCall = Idle

SpecSign == InitSpecSign /\ [][CallLongitudeToSign]_vars

InitSpecPositions ==
    /\ InitSingleton
    /\ dignityCall = Idle
    /\ signCall = Idle
    /\ InitPositions
    /\ housesCall = Idle
    /\ alignCall = Idle
    /\ profileCall = Idle
    /\ rulerCall = Idle
    /\ moonCall = Idle
    /\ eventsCall = Idle
    /\ registry = Idle
    /\ sourceCall = Idle

SpecPositions == InitSpecPositions /\ [][NextPositions]_vars

InitSpecHouses ==
    /\ InitSingleton
    /\ dignityCall = Idle
    /\ signCall = Idle
    /\ positionsRun = Idle
    /\ InitHouses
    /\ alignCall = Idle
    /\ profileCall = Idle
    /\ rulerCall = Idle
    /\ moonCall = Idle
    /\ eventsCall = Idle
    /\ registry = Idle
    /\ sourceCall = Idle

SpecHouses == InitSpecHouses /\ [][CallHouseCusps]_vars

InitSpecAlign ==
    /\ InitSingleton
    /\ dignityCall = Idle
    /\ signCall = Idle
    /\ positionsRun = Idle
    /\ housesCall = Idle
    /\ InitAlign
    /\ profileCall = Idle
    /\ rulerCall = Idle
    /\ moonCall = Idle
    /\ eventsCall = Idle
    /\ registry = Idle
    /\ sourceCall = Idle

SpecAlign == InitSpecAlign /\ [][CallDetectAlignments]_vars

InitSpecProfile ==
    /\ InitSingleton
    /\ dignityCall = Idle
    /\ signCall = Idle
    /\ positionsRun = Idle
    /\ housesCall = Idle
    /\ alignCall = Idle
    /\ InitProfile
    /\ rulerCall = Idle
    /\ moonCall = Idle
    /\ eventsCall = Idle
    /\ registry = Idle
    /\ sourceCall = Idle

SpecProfile == InitSpecProfile /\ [][CallElementalProfile]_vars

InitSpecRuler ==
    /\ InitSingleton
    /\ dignityCall = Idle
    /\ signCall = Idle
    /\ positionsRun = Idle
    /\ housesCall = Idle
    /\ alignCall = Idle
    /\ profileCall = Idle
    /\ InitRuler
    /\ moonCall = Idle
    /\ eventsCall = Idle
    /\ registry = Idle
    /\ sourceCall = Idle

SpecRuler == InitSpecRuler /\ [][NextRuler]_vars

InitSpecMoon ==
    /\ InitSingleton
    /\ dignityCall = Idle
    /\ signCall = Idle
    /\ positionsRun = Idle
    /\ housesCall = Idle
    /\ alignCall = Idle
    /\ profileCall = Idle
    /\ rulerCall = Idle
    /\ InitMoon
    /\ eventsCall = Idle
    /\ registry = Idle
    /\ sourceCall = Idle

SpecMoon == InitSpecMoon /\ [][CallGetMoonPhase]_vars

InitSpecEvents ==
    /\ InitSingleton
    /\ dignityCall = Idle
    /\ signCall = Idle
    /\ positionsRun = Idle
    /\ housesCall = Idle
    /\ alignCall = Idle
    /\ profileCall = Idle
    /\ rulerCall = Idle
    /\ moonCall = Idle
    /\ InitEvents
    /\ registry = Idle
    /\ sourceCall = Idle

SpecEvents == InitSpecEvents /\ [][CallGetUpcomingEvents]_vars

InitSpecRegistry ==
    /\ InitSingleton
    /\ dignityCall = Idle
    /\ signCall = Idle
    /\ positionsRun = Idle
    /\ housesCall = Idle
    /\ alignCall = Idle
    /\ profileCall = Idle
    /\ rulerCall = Idle
    /\ moonCall = Idle
    /\ eventsCall = Idle
    /\ InitRegistry
    /\ sourceCall = Idle

SpecRegistry == InitSpecRegistry /\ [][NextRegistry]_vars

InitSpecBalance ==
    /\ InitSingleton
    /\ dignityCall = Idle
    /\ signCall = Idle
    /\ positionsRun = Idle
    /\ housesCall = Idle
    /\ alignCall = Idle
    /\ profileCall = Idle
    /\ rulerCall = Idle
    /\ moonCall = Idle
    /\ eventsCall = Idle
    /\ registry = Idle
    /\ InitBalance

SpecBalance == InitSpecBalance /\ [][NextBalance]_vars

InitSpecLatitude ==
    /\ InitSingleton
    /\ dignityCall = Idle
    /\ signCall = Idle
    /\ positionsRun = Idle
    /\ housesCall = Idle
    /\ alignCall = Idle
    /\ profileCall = Idle
    /\ rulerCall = Idle
    /\ moonCall = Idle
    /\ eventsCall = Idle
    /\ registry = Idle
    /\ InitLatitude

SpecLatitude == InitSpecLatitude /\ [][NextLatitude]_vars

InitSpecPositionBuffs ==
    /\ InitSingleton
    /\ dignityCall = Idle
    /\ signCall = Idle
    /\ positionsRun = Idle
    /\ housesCall = Idle
    /\ alignCall = Idle
    /\ profileCall = Idle
    /\ rulerCall = Idle
    /\ moonCall = Idle
    /\ eventsCall = Idle
    /\ registry = Idle
    /\ InitPositionBuffs

SpecPositionBuffs == InitSpecPositionBuffs /\ [][CallPositionBuffs]_vars

(***************************************************************************)
(* Claims                                                                  *)
(***************************************************************************)
\* the adapter instances handed to callers so far
Received == UNION {callers[c].got : c \in Callers}

\* C2: however the callers of initSwissEphemeris interleave, SwissEPH.init is
\* started at most once and every caller that receives an adapter receives the
\* same instance, the one stored in sweInstance.
C2_InitOnceSameInstance ==
    /\ initCount <= 1
    /\ Cardinality(Received) <= 1
    /\ \A i \in Received : i = sweInstance

C2_Witness ==
    \E a, b, c \in Callers :
        /\ a # b /\ b # c /\ a # c
        /\ callers[a].via = "started" /\ callers[a].got = {1}
        /\ callers[b].via = "joined" /\ callers[b].got = {1}
        /\ callers[c].via = "cached" /\ callers[c].got = {1}

\* the categories of the dignity table that list the sign for the planet
TableCategories(planet, sign) ==
    LET dignities == PLANETARY_DIGNITIES[planet]
    IN  (IF sign \in dignities.domiciles THEN {"Domicile"} ELSE {})
        \cup (IF sign = dignities.exaltation THEN {"Exaltation"} ELSE {})
        \cup (IF sign \in dignities.detriment THEN {"Detriment"} ELSE {})
        \cup (IF sign = dignities.fall THEN {"Fall"} ELSE {})

\* C4: for every body, sign and retrograde flag, calculateDignityScore returns a
\* score within [-10, 10] and one classification out of Domicile, Exaltation,
\* Detriment, Fall, Neutral.
C4_ScoreAndClassInRange ==
    dignityCall.stage = "returned" =>
        /\ dignityCall.ret.score \in -10..10
        /\ dignityCall.ret.dignity \in Dignity

C4_Witness ==
    /\ dignityCall.stage = "returned"
    /\ dignityCall.isRetrograde
    /\ dignityCall.ret.dignity = "Neutral"
    /\ dignityCall.ret.score = -2

\* C5 (as claimed): for each of the seven bodies the domicile, exaltation,
\* detriment and fall sign sets are pairwise disjoint: no (body, sign) pair is
\* listed in more than one category.
C5_Original_AllDisjoint ==
    dignityCall.stage = "returned" =>
        Cardinality(TableCategories(dignityCall.planet, dignityCall.sign)) <= 1

\* C5 (amended): for every body other than Mercury no sign is listed in more than
\* one category; Mercury's table lists Virgo as domicile and exaltation and Pisces
\* as detriment and fall, and no other sign of Mercury is listed twice.
C5_DisjointExceptMercury ==
    dignityCall.stage = "returned" =>
        LET cats == TableCategories(dignityCall.planet, dignityCall.sign)
        IN  CASE dignityCall.planet = "Mercury" /\ dignityCall.sign = "Virgo" ->
                    cats = {"Domicile", "Exaltation"}
              [] dignityCall.planet = "Mercury" /\ dignityCall.sign = "Pisces" ->
                    cats = {"Detriment", "Fall"}
              [] OTHER -> Cardinality(cats) <= 1

C5_Witness ==
    /\ dignityCall.stage = "returned"
    /\ dignityCall.planet = "Venus"
    /\ dignityCall.sign = "Pisces"
    /\ TableCategories("Venus", "Pisces") = {"Exaltation"}
    /\ dignityCall.ret.dignity = "Exaltation"

\* the base score the specification gives each classification
BaseScoreOf(dignity) ==
    CASE dignity = "Domicile" -> 5
      [] dignity = "Exaltation" -> 4
      [] dignity = "Detriment" -> -5
      [] dignity = "Fall" -> -4
      [] dignity = "Neutral" -> 0

\* C6: the score equals the base score of the returned classification, minus 2
\* exactly when the body is retrograde; the Sun in Leo, not retrograde, scores +5.
C6_ScoreIsBaseMinusRetrograde ==
    dignityCall.stage = "returned" =>
        /\ dignityCall.ret.dignity \in Dignity
        /\ dignityCall.ret.score =
              BaseScoreOf(dignityCall.ret.dignity)
                - (IF dignityCall.isRetrograde THEN 2 ELSE 0)
        /\ (dignityCall.planet = "Sun" /\ dignityCall.sign = "Leo"
              /\ ~dignityCall.isRetrograde) => dignityCall.ret.score = 5

C6_Witness ==
    /\ dignityCall.stage = "returned"
    /\ dignityCall.planet = "Saturn"
    /\ dignityCall.sign = "Leo"
    /\ dignityCall.isRetrograde
    /\ dignityCall.ret.score = -7

\* the index floor((lon mod 360) / 30) of the real number lon
MathSignIndex(x) == (NumFloor([deg |-> x.deg + 720, eps |-> x.eps]) % 360) \div 30

\* C7: longitudeToSign is total and periodic: for every longitude, negative ones
\* included, it returns one of the 12 signs, the one at index
\* floor((lon mod 360) / 30), and longitudeToSign(lon) = longitudeToSign(lon + 360k).
C7_TotalAndPeriodic ==
    signCall.stage = "returned" =>
        /\ signCall.ret \in ZodiacSign
        /\ signCall.ret = ZODIAC_SIGNS[MathSignIndex(signCall.lon) + 1]
        /\ signCall.lon.eps = 0 =>
              \A k \in {-1, 1} :
                  longitudeToSign(Deg(signCall.lon.deg + 360 * k)) = signCall.ret

\* C7 on whole degrees only, where it holds
C7_WholeDegrees ==
    (signCall.stage = "returned" /\ signCall.lon.eps = 0) =>
        /\ signCall.ret = ZODIAC_SIGNS[MathSignIndex(signCall.lon) + 1]
        /\ \A k \in {-1, 1} :
              longitudeToSign(Deg(signCall.lon.deg + 360 * k)) = signCall.ret

\* C3: whenever the ephemeris call for a body reports an error or yields no usable
\* longitude, getAllPlanetaryDignities ends in a failure: no returned placement
\* carries a longitude 0 put in the place of a missing or failed adapter result.
C3_FailureNeverSubstituted ==
    positionsRun.stage = "resolved" =>
        \A i \in 1..Len(PLANETS) :
            /\ positionsRun.modes[i] \notin {"errErr", "noLon"}
            /\ positionsRun.results[i].planet = PLANETS[i]
            /\ positionsRun.results[i].longitude = Skies[positionsRun.sky][PLANETS[i]].lon

\* an adapter error with and without the speed flag does end in a failure
C3_ErrorPropagates ==
    (positionsRun.stage \in {"resolved", "rejected"}
        /\ \E i \in 1..Len(PLANETS) : positionsRun.modes[i] = "errErr")
    => positionsRun.stage = "rejected"

\* C8: for every result of calculateHouseCusps, whatever the adapter returned,
\* ic = (mc + 180) mod 360 and descendant = (ascendant + 180) mod 360.
C8_IcAndDescendantOpposite ==
    housesCall.stage = "returned" =>
        /\ housesCall.ret.ic \in 0..359
        /\ housesCall.ret.descendant \in 0..359
        /\ (housesCall.ret.ic - housesCall.ret.mc - 180) % 360 = 0
        /\ (housesCall.ret.descendant - housesCall.ret.ascendant - 180) % 360 = 0

C8_Witness ==
    /\ housesCall.stage = "returned"
    /\ housesCall.houseResult.shape = "flat"
    /\ housesCall.houseResult.bad = {1}
    /\ housesCall.ret.mc = 270 /\ housesCall.ret.ic = 90
    /\ housesCall.ret.ascendant = 0 /\ housesCall.ret.descendant = 180

\* the adapter produced no valid cusp at all
NoValidCusps == \A i \in 1..12 : CuspsOf(housesCall.houseResult, i).nan

\* C9: when the adapter does not produce valid house cusps, the result has 12
\* cusps spaced 30 degrees apart and anchored at the Ascendant: houses[0] is the
\* returned ascendant and houses[i] = (ascendant + 30 i) mod 360.
C9_FallbackAnchoredAtAscendant ==
    (housesCall.stage = "returned" /\ NoValidCusps) =>
        \A i \in 1..12 :
            housesCall.ret.houses[i] = (housesCall.ret.ascendant + 30 * (i - 1)) % 360

\* the smaller of the two arcs between two longitudes of [0, 360)
Separation(a, b) == Min((a - b) % 360, (b - a) % 360)

\* the integer nearest to 100 * (1 - x / 8), halves upwards
StrengthFor(x) == (201 - 25 * x) \div 2

\* the alignments of a type that detectAlignments returned for two planets
Emitted(type, p, q) ==
    {m \in 1..Len(alignCall.ret) :
        alignCall.ret[m].type = type /\ alignCall.ret[m].planets = <<p, q>>}

\* C10: for every unordered pair of placements, detectAlignments emits a
\* Conjunction exactly when the smaller arc between them is at most 8 degrees, with
\* strength round(100 (1 - sep / 8)), and an Opposition exactly when |sep - 180| is
\* at most 8, with strength round(100 (1 - |sep - 180| / 8)); 180 degrees apart
\* gives an Opposition of strength 100.
C10_ConjunctionAndOpposition ==
    alignCall.stage = "returned" =>
        \A i, j \in 1..Len(alignCall.dignities) :
            i < j =>
              LET a == alignCall.dignities[i]
                  b == alignCall.dignities[j]
                  sep == Separation(a.longitude, b.longitude)
                  conj == Emitted("Conjunction", a.planet, b.planet)
                  opp == Emitted("Opposition", a.planet, b.planet)
              IN  /\ Emitted("Conjunction", b.planet, a.planet) = {}
                  /\ Emitted("Opposition", b.planet, a.planet) = {}
                  /\ Cardinality(conj) = (IF sep <= 8 THEN 1 ELSE 0)
                  /\ \A m \in conj : alignCall.ret[m].strength = StrengthFor(sep)
                  /\ Cardinality(opp) = (IF 180 - sep <= 8 THEN 1 ELSE 0)
                  /\ \A m \in opp : alignCall.ret[m].strength = StrengthFor(180 - sep)
                  /\ sep = 180 => \E m \in opp : alignCall.ret[m].strength = 100

C10_Witness ==
    /\ alignCall.stage = "returned"
    /\ Len(alignCall.dignities) = 3
    /\ alignCall.dignities[1].longitude = 355
    /\ alignCall.dignities[2].longitude = 0
    /\ alignCall.dignities[3].longitude = 180
    /\ \E m \in Emitted("Conjunction", "Sun", "Moon") : alignCall.ret[m].strength = 38
    /\ \E m \in Emitted("Opposition", "Moon", "Mercury") : alignCall.ret[m].strength = 100
    /\ \E m \in Emitted("Opposition", "Sun", "Mercury") : alignCall.ret[m].strength = 38

\* the sum of the deltas of all breakdown entries, the base percentages included
\* (they are the entry "Base Percentages")
BreakdownSum(breakdown) ==
    SumBuffs([i \in 1..Len(breakdown) |->
                [fire |-> breakdown[i].fire, earth |-> breakdown[i].earth,
                 air |-> breakdown[i].air, water |-> breakdown[i].water]])

\* C1: for every result of calculateElementalProfile and each of fire, earth, air
\* and water, the sum of the element's deltas over the breakdown sources, plus
\* the element's base percentage (50, 50, 60, 50), equals the final value.
C1_BreakdownSumsToProfile ==
    profileCall.stage = "returned" =>
        LET ret == profileCall.ret
            sources == SelectSeq(ret.breakdown, LAMBDA e : e.source # "Base Percentages")
            sum == Plus([fire |-> U(50), earth |-> U(50), air |-> U(60), water |-> U(50)],
                        BreakdownSum(sources))
        IN  /\ sum.fire = ret.fire
            /\ sum.earth = ret.earth
            /\ sum.air = ret.air
            /\ sum.water = ret.water

\* C1 holds of the calls in which no comet event is active and no total is floored
C1_HoldsWithoutCometAndFloor ==
    (/\ profileCall.stage = "returned"
     /\ \A i \in 1..Len(profileCall.events) :
            ~(/\ IsHappening(profileCall.events[i], profileCall.date)
              /\ profileCall.events[i].type = "Planetary Alignment"
              /\ NameIncludes(profileCall.events[i], "comet"))
     /\ profileCall.ret.fire > 0 /\ profileCall.ret.water > 0)
    => LET ret == profileCall.ret
           sum == BreakdownSum(ret.breakdown)
       IN  /\ sum.fire = ret.fire
           /\ sum.earth = ret.earth
           /\ sum.air = ret.air
           /\ sum.water = ret.water

\* the alignments of a type that detectAlignments returned for a list of planets
EmittedFor(type, planets) ==
    {m \in 1..Len(alignCall.ret) :
        alignCall.ret[m].type = type /\ alignCall.ret[m].planets = planets}

OfType(type) == {m \in 1..Len(alignCall.ret) : alignCall.ret[m].type = type}

\* the two gaps between three sorted longitudes and the wraparound gap
CyclicGaps(a, b, c) ==
    LET lons == <<a % 360, b % 360, c % 360>>
        order == CHOOSE f \in [1..3 -> 1..3] :
                    /\ {f[1], f[2], f[3]} = 1..3
                    /\ lons[f[1]] <= lons[f[2]] /\ lons[f[2]] <= lons[f[3]]
    IN  << lons[order[2]] - lons[order[1]], lons[order[3]] - lons[order[2]],
           360 - lons[order[3]] + lons[order[1]] >>

\* C11: for every unordered triple of placements, detectAlignments emits one
\* Linear alignment of strength 75 for the triple exactly when some two of its
\* three cyclic gaps differ by at most 15 degrees; three bodies at exactly 0, 120
\* and 240 degrees yield a Linear alignment and no Stellium.
C11_LinearByCyclicGaps ==
    alignCall.stage = "returned" =>
        /\ \A i, j, k \in 1..Len(alignCall.dignities) :
              (i < j /\ j < k) =>
                LET a == alignCall.dignities[i]
                    b == alignCall.dignities[j]
                    c == alignCall.dignities[k]
                    gaps == CyclicGaps(a.longitude, b.longitude, c.longitude)
                    near == \E x, y \in 1..3 : x < y /\ Abs(gaps[x] - gaps[y]) <= 15
                    lin == EmittedFor("Linear", <<a.planet, b.planet, c.planet>>)
                IN  /\ Cardinality(lin) = (IF near THEN 1 ELSE 0)
                    /\ \A m \in lin : alignCall.ret[m].strength = 75
        /\ \A m \in OfType("Linear") :
              \E i, j, k \in 1..Len(alignCall.dignities) :
                 /\ i < j /\ j < k
                 /\ alignCall.ret[m].planets = << alignCall.dignities[i].planet,
                        alignCall.dignities[j].planet, alignCall.dignities[k].planet >>
        /\ (/\ Len(alignCall.dignities) = 3
            /\ {alignCall.dignities[i].longitude : i \in 1..3} = {0, 120, 240})
           => (OfType("Linear") # {} /\ OfType("Stellium") = {})

C11_Witness ==
    /\ alignCall.stage = "returned"
    /\ Len(alignCall.dignities) = 3
    /\ alignCall.dignities[1].longitude = 240
    /\ alignCall.dignities[2].longitude = 0
    /\ alignCall.dignities[3].longitude = 120
    /\ \E m \in EmittedFor("Linear", <<"Sun", "Moon", "Mercury">>) :
          alignCall.ret[m].strength = 75
    /\ OfType("Stellium") = {}

\* C12: every alignment returned by detectAlignments, of any type and for any
\* list of up to seven placements, has a strength within [0, 100].
C12_StrengthWithin100 ==
    alignCall.stage = "returned" =>
        \A m \in 1..Len(alignCall.ret) :
            alignCall.ret[m].strength >= 0 /\ alignCall.ret[m].strength <= 100

\* what holds instead: every Conjunction, Opposition and Linear alignment has a
\* strength within [0, 100]; a Stellium of n bodies has strength 15 n, which is
\* above 100 exactly when all seven bodies share a sign
StrengthWithin100ExceptStellium ==
    alignCall.stage = "returned" =>
        \A m \in 1..Len(alignCall.ret) :
            LET al == alignCall.ret[m]
            IN  IF al.type = "Stellium"
                THEN /\ al.strength = 15 * Len(al.planets)
                     /\ al.strength >= 45 /\ al.strength <= 105
                     /\ al.strength > 100 <=> Len(al.planets) = 7
                ELSE al.strength >= 0 /\ al.strength <= 100

\* the planets of the call placed in a sign, in the order of the placements
PlanetsIn(sign) ==
    LET group == SelectSeq(alignCall.dignities, LAMBDA d : d.sign = sign)
    IN  [x \in 1..Len(group) |-> group[x].planet]

ChaldeanNext(planet) ==
    CASE planet = "Saturn" -> "Jupiter"
      [] planet = "Jupiter" -> "Mars"
      [] planet = "Mars" -> "Sun"
      [] planet = "Sun" -> "Venus"
      [] planet = "Venus" -> "Mercury"
      [] planet = "Mercury" -> "Moon"
      [] planet = "Moon" -> "Saturn"

RECURSIVE Walk(_, _)
Walk(planet, steps) == IF steps = 0 THEN planet ELSE Walk(ChaldeanNext(planet), steps - 1)

\* the ruler of a weekday, 0 = Sunday
WeekdayRuler(day) ==
    CASE day = 0 -> "Sun" [] day = 1 -> "Moon" [] day = 2 -> "Mars"
      [] day = 3 -> "Mercury" [] day = 4 -> "Jupiter" [] day = 5 -> "Venus"
      [] day = 6 -> "Saturn"

\* C14: for every query instant, sunrise, sunset and optional previous sunset,
\* getPlanetaryHour returns an hour index clamped to 0..11 (reported as hour
\* 1..12) and the ruler found by walking that many steps forward in the Chaldean
\* sequence, modulo 7, from the day ruler of the instant's weekday; the first hour
\* of the day span and the first hour of the night span are both ruled by the
\* day ruler.
C14_RulerWalksFromDayRuler ==
    rulerCall.hourDone =>
        LET ret == rulerCall.planetaryHour
            dayRuler == WeekdayRuler((rulerCall.date.time \div 1440) % 7)
        IN  /\ ret.hour \in 1..12
            /\ ret.ruler = Walk(dayRuler, ret.hour - 1)
            /\ (rulerCall.sunrise < rulerCall.sunset
                  /\ rulerCall.date.time = rulerCall.sunrise)
               => (ret.isDay /\ ret.hour = 1 /\ ret.ruler = dayRuler)
            /\ (rulerCall.sunrise < rulerCall.sunset
                  /\ rulerCall.sunset < rulerCall.sunrise + 1440
                  /\ rulerCall.date.time = rulerCall.sunset)
               => (~ret.isDay /\ ret.hour = 1 /\ ret.ruler = dayRuler)

C14_Witness ==
    /\ rulerCall.hourDone
    /\ rulerCall.date.time = 3 * 1440 + 1200
    /\ rulerCall.sunrise = 3 * 1440 + 360
    /\ rulerCall.sunset = 3 * 1440 + 1080
    /\ rulerCall.planetaryHour = [hour |-> 3, ruler |-> "Saturn", isDay |-> FALSE]

\* the length of the span that applies to the query instant: the day when the
\* instant is between sunrise and sunset, else the night it falls in
ApplicableSpan ==
    LET t == rulerCall.date.time
        prev == IF rulerCall.prevSunset.present THEN rulerCall.prevSunset.time
                ELSE rulerCall.sunset - 1440
    IN  IF t >= rulerCall.sunrise /\ t < rulerCall.sunset
        THEN rulerCall.sunset - rulerCall.sunrise
        ELSE IF t < rulerCall.sunrise THEN rulerCall.sunrise - prev
        ELSE rulerCall.sunrise + 1440 - rulerCall.sunset

TATTVA_CYCLE == <<"Akasha", "Vayu", "Tejas", "Apas", "Prithvi">>

\* C17: for every query instant t and sunrise s, with t before or after s,
\* getTattva(t, s) is the slice number floor(m / 24) of m = (minutes from s to t)
\* mod 120 taken in [0, 120), in the cyclic order Akasha, Vayu, Tejas, Apas,
\* Prithvi; hence getTattva(t, s) = getTattva(t + 120 minutes, s) for every t.
C17_TattvaByCyclePosition ==
    rulerCall.tattvaDone =>
        LET m == (rulerCall.date.time - rulerCall.sunrise) % 120
        IN  /\ rulerCall.tattva = TATTVA_CYCLE[(m \div 24) + 1]
            /\ rulerCall.tattva =
                  getTattva([rulerCall.date EXCEPT !.time = @ + 120], rulerCall.sunrise)

\* C17 for instants at or after the sunrise, where it holds
C17_AfterSunrise ==
    (rulerCall.tattvaDone /\ rulerCall.date.time >= rulerCall.sunrise) =>
        LET m == (rulerCall.date.time - rulerCall.sunrise) % 120
        IN  /\ rulerCall.tattva = TATTVA_CYCLE[(m \div 24) + 1]
            /\ rulerCall.tattva =
                  getTattva([rulerCall.date EXCEPT !.time = @ + 120], rulerCall.sunrise)

\* the eight phases in the order of growing elongation
MOON_PHASES ==
    << "New Moon", "Waxing Crescent", "First Quarter", "Waxing Gibbous",
       "Full Moon", "Waning Gibbous", "Last Quarter", "Waning Crescent" >>

\* C19: for all Sun and Moon longitudes in [0, 360), getMoonPhase works on the
\* elongation (moon - sun) normalised into [0, 360) and names the phase by eight
\* sectors 45 degrees wide centred on 0, 45, ..., 315 degrees; elongation exactly
\* 0 gives New Moon with illumination 0 and age 0, and exactly 180 degrees gives
\* Full Moon with illumination 100.
C19_PhaseBySector ==
    moonCall.stage = "returned" =>
        LET elongation == (moonCall.moonLongitude - moonCall.sunLongitude) % 144
            sector == ((elongation + 9) \div 18) % 8
        IN  /\ moonCall.ret.phase = MOON_PHASES[sector + 1]
            /\ elongation = 0 =>
                  moonCall.ret = [phase |-> "New Moon", illumination |-> 0, age |-> 0]
            /\ elongation = 72 =>
                  (moonCall.ret.phase = "Full Moon" /\ moonCall.ret.illumination = 1000)

C19_Witness ==
    /\ moonCall.stage = "returned"
    /\ moonCall.sunLongitude = 100
    /\ moonCall.moonLongitude = 28
    /\ moonCall.ret.phase = "Full Moon"
    /\ moonCall.ret.illumination = 1000

\* the totals of a call before any floor: base percentages plus buffs for the
\* four elements, the running Akasha total for spirit
Unfloored ==
    LET date == profileCall.date
        sun == profileCall.sun
        prevSunset == IF date.time < sun.sunrise THEN sun.prevDaySunset ELSE sun.sunset
        planetaryHour == getPlanetaryHour(date, sun.sunrise, sun.sunset,
                                          [present |-> TRUE, time |-> prevSunset])
        tattva == getTattva(date, sun.sunrise)
        dignities == DignitiesOf(Skies[profileCall.sky])
        buffs == Buffs(date, profileCall.location.latitude, profileCall.weather,
                       profileCall.events, dignities, tattvaToElement(tattva),
                       getPlanetaryHourElement(planetaryHour.ruler))
    IN  [elements |-> Plus(BasePercentages, buffs),
         spirit |-> AkashaTotal(date, profileCall.events, dignities, tattva,
                                planetaryHour.ruler, buffs)]

\* C18: for every input of calculateElementalProfile, the five reported values
\* fire, earth, air, water and spirit are each at least 0, none of them is capped
\* from above (each is at least its unfloored total, whatever its size), and the
\* spirit value of the 'Akasha' breakdown entry equals the reported spirit.
C18_FlooredNotCapped ==
    profileCall.stage = "returned" =>
        LET ret == profileCall.ret
            akashaEntries == SelectSeq(ret.breakdown, LAMBDA e : e.source = "Akasha")
            raw == Unfloored
        IN  /\ ret.fire >= 0 /\ ret.earth >= 0 /\ ret.air >= 0 /\ ret.water >= 0
            /\ ret.spirit.num >= 0 /\ ret.spirit.den > 0
            /\ ret.fire >= raw.elements.fire
            /\ ret.earth >= raw.elements.earth
            /\ ret.air >= raw.elements.air
            /\ ret.water >= raw.elements.water
            /\ ret.spirit.den = raw.spirit.den
            /\ ret.spirit.num >= raw.spirit.num
            /\ Len(akashaEntries) = 1
            /\ akashaEntries[1].spirit = ret.spirit

\* a call whose water total is floored at 0 while fire and spirit exceed 100
C18_Witness ==
    /\ profileCall.stage = "returned"
    /\ Unfloored.elements.water < 0
    /\ profileCall.ret.water = 0
    /\ profileCall.ret.fire > U(100)
    /\ profileCall.ret.spirit.num > 100 * profileCall.ret.spirit.den

\* a call whose running Akasha total is negative and is reported as 0
C18_SpiritFloored ==
    /\ profileCall.stage = "returned"
    /\ Unfloored.spirit.num < 0
    /\ profileCall.ret.spirit.num = 0

\* the events emitted for the window of the call: the seasonal events of the
\* calendar years the window touches and each meteor shower at its first date on
\* or after the day of the start, as far as they lie in the window
EmittedEvents ==
    LET start == eventsCall.startDate
        end == start + 2 * eventsCall.daysAhead
        seasonal == UNION {{SeasonalEvents(y)[i] : i \in 1..4} :
                              y \in (start \div 730)..(end \div 730)}
        showers == {ShowerEvents(start)[i] : i \in 1..Len(METEOR_SHOWERS)}
    IN  {e \in seasonal \cup showers : e.date >= start /\ e.date <= end}

\* C20: for every start date and every window length daysAhead >= 0, the list
\* returned by getUpcomingEvents is sorted by date in non-decreasing order, has at
\* most 10 entries, contains only events dated within [start, start + daysAhead],
\* and consists of the 10 earliest of the events emitted for the window.
C20_SortedTruncatedWindow ==
    eventsCall.stage = "returned" =>
        LET ret == eventsCall.ret
            start == eventsCall.startDate
            end == start + 2 * eventsCall.daysAhead
            listed == {ret[i] : i \in 1..Len(ret)}
        IN  /\ \A i \in 1..(Len(ret) - 1) : ret[i].date <= ret[i + 1].date
            /\ Len(ret) <= 10
            /\ \A i \in 1..Len(ret) : ret[i].date >= start /\ ret[i].date <= end
            /\ listed \subseteq EmittedEvents
            /\ Cardinality(listed) = Len(ret)
            /\ Len(ret) = Min(10, Cardinality(EmittedEvents))
            /\ \A e \in EmittedEvents \ listed : \A i \in 1..Len(ret) : ret[i].date <= e.date

\* a window of three years, of which the ten earliest events are returned
C20_Witness ==
    /\ eventsCall.stage = "returned"
    /\ eventsCall.daysAhead = 1100
    /\ Cardinality(EmittedEvents) > 10
    /\ Len(eventsCall.ret) = 10
    /\ eventsCall.ret[1].date < eventsCall.ret[10].date

\* the rulers that the computation from sunrise and sunset hands on
AccurateRulers ==
    {PlanetaryHourOf(RegistryClocks[c].date, RegistryClocks[c].sun).ruler :
        c \in 1..Len(RegistryClocks)}

\* C16: the simplified hour ruler (getHourRuler) is used for the reported hour
\* ruler only when no location is available, and whenever it is used the value
\* handed to downstream consumers is flagged as an approximation, distinguishable
\* from a ruler computed from sunrise and sunset.
C16_SimplifiedRulerOnlyWithoutLocationAndFlagged ==
    (registry.stage = "mounted" /\ registry.handed.simplified) =>
        /\ ~registry.handed.located
        /\ registry.hourRuler \notin AccurateRulers

\* the first half of C16, which holds: the simplified ruler is handed on by the
\* runs that captured no location, and by no other
C16_SimplifiedOnlyWithoutLocation ==
    (registry.stage = "mounted" /\ registry.shownRun >= 0) =>
        /\ registry.handed.simplified <=> ~registry.handed.located
        /\ registry.handed.ruler = registry.hourRuler

(***************************************************************************)
(* C21: when the geocoding lookup yields no result, zipCodeToLocation      *)
(* returns null, and handleZipCodeChange then leaves the location it held  *)
(* as it was and records an error message.                                 *)
(***************************************************************************)
C21_LookupMissKeepsLocationSetsError ==
    [][\A lookup \in registry.lookups \ registry'.lookups :
          (lookup.typed /\ ~registry'.looked.found) =>
              /\ registry'.location = registry.location
              /\ registry'.error]_vars

\* a typed lookup came back empty while a location was held
C21_Witness ==
    /\ registry.stage = "mounted"
    /\ registry.looked = [done |-> TRUE, typed |-> TRUE, found |-> FALSE]
    /\ registry.error
    /\ registry.location.present

(***************************************************************************)
(* C22: for every list of events, the fire, earth, air and water deltas of *)
(* the "Astrological Events" breakdown entry are the sums of the event     *)
(* deltas that calculateElementalProfile added to the element totals.      *)
(***************************************************************************)
\* the "Astrological Events" entries of a breakdown
EventEntries(breakdown) ==
    SelectSeq(breakdown, LAMBDA entry : entry.source = "Astrological Events")

\* what the first loop over events added to buffs for the call
EventDeltasAdded ==
    SumBuffs([i \in 1..Len(profileCall.events) |->
                 EventBuff(profileCall.events[i], profileCall.date)])

C22_EventBreakdownEqualsAddedDeltas ==
    profileCall.stage = "returned" =>
        \A i \in 1..Len(EventEntries(profileCall.ret.breakdown)) :
            LET entry == EventEntries(profileCall.ret.breakdown)[i]
            IN  /\ entry.fire = EventDeltasAdded.fire
                /\ entry.earth = EventDeltasAdded.earth
                /\ entry.air = EventDeltasAdded.air
                /\ entry.water = EventDeltasAdded.water

\* the entry agrees with the added deltas when no active event is a comet,
\* and otherwise differs from them in fire alone, by 11 points per active comet
C22_DiffersByCometFireOnly ==
    profileCall.stage = "returned" =>
        \A i \in 1..Len(EventEntries(profileCall.ret.breakdown)) :
            LET entry == EventEntries(profileCall.ret.breakdown)[i]
                comets == {k \in 1..Len(profileCall.events) :
                             /\ profileCall.events[k].type = "Planetary Alignment"
                             /\ NameIncludes(profileCall.events[k], "comet")
                             /\ IsHappening(profileCall.events[k], profileCall.date)}
            IN  /\ entry.fire = EventDeltasAdded.fire + U(11) * Cardinality(comets)
                /\ entry.earth = EventDeltasAdded.earth
                /\ entry.air = EventDeltasAdded.air
                /\ entry.water = EventDeltasAdded.water

(***************************************************************************)
(* C23: an event contributes to the element totals and to spirit exactly   *)
(* when the query instant lies inside the event's proximity window, bounds *)
(* included: at most 1 day from the event date for Solstice and Equinox,   *)
(* at most 3 days for Meteor Shower, at most 24 hours for every Eclipse    *)
(* and every Planetary Alignment; outside its window it contributes        *)
(* nothing.                                                                *)
(***************************************************************************)
\* the stated proximity window of an event type, in minutes
StatedWindow(type) ==
    CASE type \in {"Solstice", "Equinox"} -> 1440
      [] type = "Meteor Shower" -> 3 * 1440
      [] type \in {"Eclipse", "Planetary Alignment"} -> 24 * 60

InStatedWindow(event, date) == Abs(date.time - event.date) <= StatedWindow(event.type)

\* an event inside its stated window is taken as happening (its type's deltas,
\* which the code leaves at zero for some names, are applied); an event outside
\* it is not, and adds nothing to the totals or to spirit
C23_ContributesExactlyInsideWindow ==
    profileCall.stage = "returned" =>
        \A i \in 1..Len(profileCall.events) :
            LET event == profileCall.events[i]
                toTotals == EventBuff(event, profileCall.date)
                toSpirit == EventAkasha(event, profileCall.date)
            IN  IF InStatedWindow(event, profileCall.date)
                THEN IsHappening(event, profileCall.date)
                ELSE /\ ~IsHappening(event, profileCall.date)
                     /\ toTotals = ZeroBuffs
                     /\ toSpirit = 0

\* what the code does: the window of a Planetary Alignment named as a comet is 3
\* days; outside its window an event adds nothing; inside it a Solstice, an
\* Equinox, a Meteor Shower and a solar or lunar Eclipse add to the totals and
\* to spirit, a comet and any other Eclipse to spirit alone, any other Planetary
\* Alignment to neither
C23_ContributionsByCodeWindow ==
    profileCall.stage = "returned" =>
        \A i \in 1..Len(profileCall.events) :
            LET event == profileCall.events[i]
                comet == event.type = "Planetary Alignment" /\ NameIncludes(event, "comet")
                window == IF comet THEN 3 * 1440 ELSE StatedWindow(event.type)
                inside == Abs(profileCall.date.time - event.date) <= window
                toTotals == EventBuff(event, profileCall.date)
                toSpirit == EventAkasha(event, profileCall.date)
            IN  /\ ~inside => (toTotals = ZeroBuffs /\ toSpirit = 0)
                /\ inside =>
                      /\ toSpirit # 0 <=> (event.type # "Planetary Alignment" \/ comet)
                      /\ toTotals # ZeroBuffs <=>
                            \/ event.type \in {"Solstice", "Equinox", "Meteor Shower"}
                            \/ /\ event.type = "Eclipse"
                               /\ NameIncludes(event, "solar") \/ NameIncludes(event, "lunar")

(***************************************************************************)
(* C24: the reported spirit is max(0, T), floored once at the end, with    *)
(* T = 25 + 7 per body of each Conjunction - 12 per body of each           *)
(* Opposition + 8 per body of each Linear alignment + 30 per Stellium,     *)
(* whatever its size, + 15 if the tattva is Akasha + the bonuses of the    *)
(* active events + the planetary-hour bonus (Saturn 9, Jupiter 4, Sun 4,   *)
(* Moon 4, others 0) + the elemental-balance bonus - 9 per body in         *)
(* Detriment - 12 per retrograde body.                                     *)
(***************************************************************************)
\* the alignments of one type among those of the sky of the call
ProfileAlignments(type) ==
    SelectSeq(detectAlignments(DignitiesOf(Skies[profileCall.sky])),
              LAMBDA alignment : alignment.type = type)

\* the bodies in the alignments of one type, each counted once per alignment
BodiesIn(type) ==
    SumInts([i \in 1..Len(ProfileAlignments(type)) |->
                Len(ProfileAlignments(type)[i].planets)])

HourBonus(ruler) ==
    IF ruler = "Saturn" THEN 9
    ELSE IF ruler \in {"Jupiter", "Sun", "Moon"} THEN 4
    ELSE 0

\* T without the elemental-balance bonus, a whole number
SpiritWhole ==
    LET ret == profileCall.ret
        dignities == DignitiesOf(Skies[profileCall.sky])
    IN  25 + 7 * BodiesIn("Conjunction") - 12 * BodiesIn("Opposition")
           + 8 * BodiesIn("Linear") + 30 * Len(ProfileAlignments("Stellium"))
           + (IF ret.tattva = "Akasha" THEN 15 ELSE 0)
           + SumInts([i \in 1..Len(profileCall.events) |->
                         EventAkasha(profileCall.events[i], profileCall.date)])
           + HourBonus(ret.planetaryHour)
           - 9 * Cardinality({p \in Planet :
                    \E i \in 1..7 : /\ dignities[i].planet = p
                                     /\ dignities[i].dignity = "Detriment"})
           - 12 * Cardinality({p \in Planet : Skies[profileCall.sky][p].retro})

C24_SpiritIsFlooredTotal ==
    profileCall.stage = "returned" =>
        LET ret == profileCall.ret
            bonus == BalanceBonus([fire |-> ret.fire, earth |-> ret.earth,
                                   air |-> ret.air, water |-> ret.water])
        IN  /\ ret.spirit.den = bonus.den
            /\ ret.spirit.num = Max(0, SpiritWhole * bonus.den + bonus.num)

\* a positive spirit made of a Stellium, an alignment of another type, an
\* active event and a body in Detriment or retrograde
C24_Witness ==
    /\ profileCall.stage = "returned"
    /\ profileCall.ret.spirit.num > 0
    /\ Len(ProfileAlignments("Stellium")) > 0
    /\ BodiesIn("Conjunction") + BodiesIn("Opposition") + BodiesIn("Linear") > 0
    /\ \E i \in 1..Len(profileCall.events) :
          EventAkasha(profileCall.events[i], profileCall.date) > 0
    /\ \E i \in 1..7 :
          \/ DignitiesOf(Skies[profileCall.sky])[i].dignity = "Detriment"
          \/ DignitiesOf(Skies[profileCall.sky])[i].isRetrograde

\* the floor acts: T is negative and the reported spirit is 0
C24_WitnessFloored ==
    /\ profileCall.stage = "returned"
    /\ SpiritWhole < -20
    /\ profileCall.ret.spirit.num = 0

(***************************************************************************)
(* C25: the elemental-balance bonus added to spirit is computed from the   *)
(* four floored element totals and lies in [0, 20]; it is 0 whenever       *)
(* max - min is at least 15% of max, 20 when the four totals are equal and *)
(* positive, and 20 * (1 - rangePercent / 15) between these,               *)
(* non-increasing in the range.                                            *)
(***************************************************************************)
Largest(temp) == Max(Max(temp.fire, temp.earth), Max(temp.air, temp.water))

Spread(temp) ==
    Largest(temp) - Min(Min(temp.fire, temp.earth), Min(temp.air, temp.water))

\* the bonus b = num / den satisfies 20 - b = 20 * rangePercent / 15, that is
\* 3 * max * (20 - b) = 400 * range
BonusByRange(temp, bonus) ==
    /\ bonus.den > 0
    /\ 0 <= bonus.num /\ bonus.num <= 20 * bonus.den
    /\ 100 * Spread(temp) >= 15 * Largest(temp) => bonus.num = 0
    /\ (Spread(temp) = 0 /\ Largest(temp) > 0) => bonus.num = 20 * bonus.den
    /\ 100 * Spread(temp) < 15 * Largest(temp) =>
          3 * Largest(temp) * (20 * bonus.den - bonus.num)
              = 400 * Spread(temp) * bonus.den

C25_BonusWithinRangeAndLinear ==
    [][sourceCall'.stage = "returned" =>
          /\ BonusByRange(sourceCall'.temp, sourceCall'.balanceBonus)
          /\ (/\ sourceCall.stage = "returned"
              /\ Largest(sourceCall'.temp) = Largest(sourceCall.temp)
              /\ Spread(sourceCall'.temp) >= Spread(sourceCall.temp)) =>
                  sourceCall'.balanceBonus.num * sourceCall.balanceBonus.den
                      <= sourceCall.balanceBonus.num * sourceCall'.balanceBonus.den]_vars

\* a bonus strictly between 0 and 20
C25_Witness ==
    /\ sourceCall.stage = "returned"
    /\ Spread(sourceCall.temp) > 0
    /\ sourceCall.balanceBonus.num > 0
    /\ sourceCall.balanceBonus.num < 20 * sourceCall.balanceBonus.den

\* the four totals equal: the bonus is 20
C25_WitnessEqual ==
    /\ sourceCall.stage = "returned"
    /\ Spread(sourceCall.temp) = 0
    /\ sourceCall.balanceBonus.num = 20 * sourceCall.balanceBonus.den

(***************************************************************************)
(* C26: the latitude contribution depends only on the absolute value of    *)
(* the latitude (L and -L give the same fire and water deltas); it is fire *)
(* +40 / water -20 at 0 degrees, 0 / 0 at 45 degrees, fire -20 / water +40 *)
(* at 90 degrees and linear in between; the fire delta and the water delta *)
(* never have the same non-zero sign.                                      *)
(***************************************************************************)
\* the value at a of the line through (a0, v0) and (a1, v1), times a1 - a0
OnLine(a, a0, v0, a1, v1) == v0 * (a1 - a) + v1 * (a - a0)

\* deltas in eighteenths of a point, for the absolute latitude a in degrees
LatitudeDeltasAt(deltas, a) ==
    /\ deltas.earth = 0 /\ deltas.air = 0
    /\ a <= 45 => /\ 45 * deltas.fire = OnLine(a, 0, U(40), 45, 0)
                  /\ 45 * deltas.water = OnLine(a, 0, -U(20), 45, 0)
    /\ a >= 45 => /\ 45 * deltas.fire = OnLine(a, 45, 0, 90, -U(20))
                  /\ 45 * deltas.water = OnLine(a, 45, 0, 90, U(40))
    /\ ~(deltas.fire > 0 /\ deltas.water > 0)
    /\ ~(deltas.fire < 0 /\ deltas.water < 0)

C26_LatitudeBySymmetricLine ==
    [][sourceCall'.stage = "returned" =>
          /\ LatitudeDeltasAt(sourceCall'.buffs, Abs(sourceCall'.latitude))
          /\ LatitudeDeltasAt(sourceCall'.display, Abs(sourceCall'.latitude))
          /\ (/\ sourceCall.stage = "returned"
              /\ sourceCall'.latitude = -sourceCall.latitude) =>
                  /\ sourceCall'.buffs = sourceCall.buffs
                  /\ sourceCall'.display = sourceCall.display]_vars

\* a southern latitude between the equator and 45 degrees, with a fire bonus
\* and a water penalty
C26_Witness ==
    /\ sourceCall.stage = "returned"
    /\ sourceCall.latitude < 0 /\ sourceCall.latitude > -45
    /\ sourceCall.buffs.fire > 0
    /\ sourceCall.buffs.water < 0

(***************************************************************************)
(* C27: if the first initialisation of the ephemeris adapter fails, the    *)
(* failed promise stays cached: sweInstance remains unset, initPromise is  *)
(* never reset, SwissEPH.init is never attempted again, and every later    *)
(* call of initSwissEphemeris fails with that same error.                  *)
(***************************************************************************)
C27_FailedInitStaysCached ==
    [][initStage.pc = "failed" =>
          /\ initPromise.state = "rejected" /\ initPromise' = initPromise
          /\ sweInstance = 0 /\ sweInstance' = 0
          /\ initCount = 1 /\ initCount' = 1
          /\ initStage' = initStage
          /\ \A c \in Callers :
                /\ callers'[c].got = {}
                /\ callers'[c].calls > callers[c].calls => callers'[c].via = "joined"
                /\ (callers[c].pc = "awaiting" /\ callers'[c].pc = "idle") =>
                      callers'[c].failed]_vars

\* a caller whose first call failed has called again, joined the rejected
\* promise and failed again
C27_Witness ==
    /\ initStage.pc = "failed"
    /\ \E c \in Callers :
          /\ callers[c].calls = 2
          /\ callers[c].via = "joined"
          /\ callers[c].pc = "idle"
          /\ callers[c].failed

(***************************************************************************)
(* C28: in PlanetaryRegistry, after any sequence of changes to date, time, *)
(* location or weather and any order of completion of the computations     *)
(* they start, once no computation is in flight the displayed values are   *)
(* those computed for the most recent inputs, and isLoading is false only  *)
(* when no computation is in flight.                                       *)
(***************************************************************************)
\* the displayed values were stored by the run started last, which captured the
\* inputs the component holds
ShowsLatestRun ==
    /\ registry.shownRun = registry.nextId - 1
    /\ registry.profile =
          ProfileOfRun([clock |-> registry.clock, location |-> registry.location,
                        weather |-> registry.weather])
    /\ registry.dayRuler = getDayRuler(RegistryClocks[registry.clock].date)

\* no run was rejected since the last one started (the effect clears error, a
\* rejected run sets it)
C28_LatestShownAndLoadingWhileInFlight ==
    registry.stage = "mounted" =>
        /\ (registry.runs = {} /\ ~registry.error) => ShowsLatestRun
        /\ ~registry.isLoading => registry.runs = {}

\* the first half alone: with every run resolved, the display is the latest run's
C28_LatestShownWhenIdle ==
    (registry.stage = "mounted" /\ registry.runs = {} /\ ~registry.error) =>
        ShowsLatestRun

\* the second half alone
C28_LoadingWhileInFlight ==
    (registry.stage = "mounted" /\ ~registry.isLoading) => registry.runs = {}

(***************************************************************************)
(* C29: for every assignment of the seven bodies to signs, the "Planetary  *)
(* Positions" contribution sums over fire, earth, air and water to 52.5    *)
(* (Sun 13.5 + Moon 9 + 5 bodies at 6 each); it never adds to spirit, and  *)
(* each body's weight goes to exactly one element, the element of its      *)
(* sign.                                                                   *)
(***************************************************************************)
\* the elements in the order of the zodiac: Aries Fire, Taurus Earth, Gemini
\* Air, Cancer Water, and so on around the circle
ElementBySignPlace(sign) ==
    LET place == CHOOSE i \in 1..12 : ZODIAC_SIGNS[i] = sign
    IN  <<"Fire", "Earth", "Air", "Water">>[((place - 1) % 4) + 1]

\* the weight of a body, in eighteenths of a point
BodyWeight(planet) ==
    IF planet = "Sun" THEN 243 ELSE IF planet = "Moon" THEN U(9) ELSE U(6)

\* the weights of the bodies of the call placed in signs of the element
WeightIn(element) ==
    SumInts([i \in 1..7 |->
                IF ElementBySignPlace(sourceCall.dignities[i].sign) = element
                THEN BodyWeight(sourceCall.dignities[i].planet)
                ELSE 0])

PositionDeltas(deltas) ==
    /\ deltas.fire + deltas.earth + deltas.air + deltas.water = 945
    /\ deltas.fire = WeightIn("Fire")
    /\ deltas.earth = WeightIn("Earth")
    /\ deltas.air = WeightIn("Air")
    /\ deltas.water = WeightIn("Water")

C29_PositionsSumToConstant ==
    sourceCall.stage = "returned" =>
        /\ PositionDeltas(sourceCall.buffs)
        /\ PositionDeltas(sourceCall.entry)
        /\ sourceCall.entry.spirit = [num |-> 0, den |-> 1]
        /\ DOMAIN sourceCall.buffs = {"fire", "earth", "air", "water"}

\* Sun and Moon in signs of different elements, and an element without any body
C29_Witness ==
    /\ sourceCall.stage = "returned"
    /\ ElementBySignPlace(sourceCall.dignities[1].sign)
          # ElementBySignPlace(sourceCall.dignities[2].sign)
    /\ \E element \in {"Fire", "Earth", "Air", "Water"} : WeightIn(element) = 0
    /\ sourceCall.buffs.fire > 243

(***************************************************************************)
(* C30: calculateDignityScore tests Domicile, Exaltation, Detriment, Fall  *)
(* in this order, so Mercury in Virgo is always Domicile and Mercury in    *)
(* Pisces always Detriment; Exaltation and Fall are unreachable for        *)
(* Mercury in every sign, while every other body can reach all five        *)
(* classifications.                                                        *)
(***************************************************************************)
\* the classifications calculateDignityScore returns for a body over the signs
\* and both retrograde flags
ClassificationsOf(planet) ==
    {calculateDignityScore(planet, sign, isRetrograde).dignity :
        sign \in ZodiacSign, isRetrograde \in BOOLEAN}

C30_MercuryNeverExaltedNorFallen ==
    dignityCall.stage = "returned" =>
        IF dignityCall.planet = "Mercury"
        THEN /\ dignityCall.sign = "Virgo" => dignityCall.ret.dignity = "Domicile"
             /\ dignityCall.sign = "Pisces" => dignityCall.ret.dignity = "Detriment"
             /\ dignityCall.ret.dignity \notin {"Exaltation", "Fall"}
             /\ ClassificationsOf("Mercury") = {"Domicile", "Detriment", "Neutral"}
        ELSE ClassificationsOf(dignityCall.planet)
                = {"Domicile", "Exaltation", "Detriment", "Fall", "Neutral"}

\* Mercury, retrograde, in the sign its table lists as domicile and exaltation
C30_Witness ==
    /\ dignityCall.stage = "returned"
    /\ dignityCall.planet = "Mercury"
    /\ dignityCall.sign = "Virgo"
    /\ dignityCall.isRetrograde
    /\ dignityCall.ret.dignity = "Domicile"
    /\ dignityCall.ret.score = 3

====
